---- MODULE Spec2Model ----
(***************************************************************************)
(* Model of the Tandem two-party SMPC engine (WRK17) and of the HTTP       *)
(* message exchange built on it.                                           *)
(*                                                                         *)
(* Vectors of the Rust code are functions with domain 0..n-1, so that an   *)
(* index of the model is the index of the code.  128-bit values (MacType,  *)
(* KeyType, WireLabel, Delta) are integers in 0..2^K-1 for a scaled-down   *)
(* width K; the hash functions and the ChaCha20 generator are fixed        *)
(* deterministic functions of their inputs.                                *)
(***************************************************************************)
EXTENDS Integers, Sequences, FiniteSets, TLC

(***************************************************************************)
(* Widths and program constants                                            *)
(***************************************************************************)

\* types.rs: K = SecurityBits::BITS (128), scaled down
K == 2

\* leakydelta_ot.rs: BLOCK_SIZE = K
BLOCK_SIZE == K

\* states.rs: TRIPLES = BLOCK_SIZE * 3
TRIPLES == BLOCK_SIZE * 3

\* number of values of a K-bit word
M == 2 ^ K

\* order of the group the base OT works in (Ristretto255, scaled down)
Q == 5

\* number of distinct 32-byte strings (seeds, coins, OT messages), scaled down
SeedMod == 8

\* the width of u32 (GateIndex), scaled down
U32Bits == 10

\* the number of values of a u32
U32Mod == 2 ^ U32Bits

\* circuit.rs: MAX_GATES = u32::MAX >> 4, MAX_AND_GATES = u32::MAX >> 8
MAX_GATES == (U32Mod - 1) \div (2 ^ 4)

MAX_AND_GATES == (U32Mod - 1) \div (2 ^ 8)

\* states.rs bucket_size: thresholds of WRK17a table 4
BucketThreshold3 == 280000

BucketThreshold4 == 3100

(***************************************************************************)
(* Bit arithmetic on K-bit words                                           *)
(***************************************************************************)

Bit(x, i) == (x \div (2 ^ i)) % 2

TestBit(x, i) == Bit(x, i) = 1

RECURSIVE Xor(_, _)
Xor(a, b) ==
    IF a = 0 THEN b
    ELSE IF b = 0 THEN a
    ELSE ((a + b) % 2) + 2 * Xor(a \div 2, b \div 2)

RECURSIVE BitAnd(_, _)
BitAnd(a, b) ==
    IF a = 0 \/ b = 0 THEN 0
    ELSE ((a % 2) * (b % 2)) + 2 * BitAnd(a \div 2, b \div 2)

\* b ? v : 0
IfBit(b, v) == IF b THEN v ELSE 0

BoolXor(a, b) == a # b

B2N(b) == IF b THEN 1 ELSE 0

\* the word whose bit i is f[i], for f a function on 0..n-1 with values 0/1
RECURSIVE PackFrom(_, _, _)
PackFrom(f, i, n) == IF i >= n THEN 0 ELSE f[i] * (2 ^ i) + PackFrom(f, i + 1, n)

Pack(f) == PackFrom(f, 0, K)

VecLen(v) == Cardinality(DOMAIN v)

EmptyVec == [i \in {} |-> 0]

(***************************************************************************)
(* Random number generator (ChaCha20Rng): a seed and a stream position.    *)
(* The k-th word of the stream is a fixed function of seed and position.   *)
(***************************************************************************)

RngFromSeed(seed) == [seed |-> seed, pos |-> 0]

RngWord(rng, k) ==
    LET s == rng.seed
        p == rng.pos + k
        x == (s * 37 + p * 101 + 31) % 1201
        y == (x * x * x + 7 * x + s * p * 3 + 1) % 7919
        z == (y * y + 3 * y + 5) % 7907
    IN  z \div 7

RngAdvance(rng, n) == [rng EXCEPT !.pos = @ + n]

\* rng.gen::<u128>()
RngU128(rng, k) == RngWord(rng, k) % M

\* Scalar::random(rng)
RngScalar(rng, k) == RngWord(rng, k) % Q

\* rng.fill(&mut [u8; 32])
RngBytes32(rng, k) == RngWord(rng, k) % SeedMod

\* one i32 of rng.fill(&mut [i32]): a signed value
RngI32(rng, k) == (RngWord(rng, k) % 16) - 8

(***************************************************************************)
(* Hashing (hash.rs, blake3)                                               *)
(***************************************************************************)

HashWord(x) ==
    LET y == x % 1021
    IN  ((y + 1) * (y + 2) * (y + 5) + (y * y) \div 2 + 7 * y + 3) % 1013

\* hash.rs hash / hash_key (hash_u128)
hash(mac) == HashWord(3 * mac + 1) % M

hash_key(key) == hash(key)

\* hash.rs hash_keys
hash_keys(k1, k2) == HashWord(2 * M * M + k1 * M + k2) % M

\* hash.rs garbling_hash::new : a BitShare; mac and key are asserted nonzero
garbling_hash_new(label_x, label_y, gate, row) ==
    LET w == HashWord(5 * M * M + ((label_x * M + label_y) * 7 + gate) * 4 + row)
        v == HashWord(w + 17)
    IN  [mac |-> 1 + (w % (M - 1)),
         key |-> 1 + (v % (M - 1)),
         bit |-> ((w + v) \div M) % 2 = 1]

\* cointossing.rs hash_coinshare
hash_coinshare(coin) == HashWord(7 * M * M + coin) % 64

\* the blake3 hash of the base OT: H(A, P) as a 32-byte string
hash_ot(a, p) == HashWord(11 * M * M + a * Q + p) % SeedMod


(***************************************************************************)
(* Circuits (circuit.rs)                                                   *)
(***************************************************************************)

InContrib == [t |-> "InContrib", a |-> 0, b |-> 0]

InEval == [t |-> "InEval", a |-> 0, b |-> 0]

GXor(x, y) == [t |-> "Xor", a |-> x, b |-> y]

GAnd(x, y) == [t |-> "And", a |-> x, b |-> y]

GNot(x) == [t |-> "Not", a |-> x, b |-> 0]

\* the number of indices i < n of gates of type ty
CountGates(gates, ty, n) == Cardinality({i \in 0..(n - 1) : gates[i].t = ty})

\* Circuit::new: gates and output_gates are vectors (functions on 0..n-1)
Circuit_new(gates, output_gates) ==
    [gates |-> gates,
     output_gates |-> output_gates,
     and_gates |-> CountGates(gates, "And", VecLen(gates)),
     eval_inputs |-> CountGates(gates, "InEval", VecLen(gates)),
     contrib_inputs |-> CountGates(gates, "InContrib", VecLen(gates))]

\* Seq -> vector
ToVec(seq) == [i \in 0..(Len(seq) - 1) |-> seq[i + 1]]

\* i as u32
AsU32(i) == i % U32Mod

\* Circuit::validate
validate(c) ==
    LET n == VecLen(c.gates)
        bad(i) == LET g == c.gates[i]
                  IN  \/ g.t \in {"Xor", "And"} /\ (g.a >= AsU32(i) \/ g.b >= AsU32(i))
                      \/ g.t = "Not" /\ g.a >= AsU32(i)
    IN  IF \E i \in 0..(n - 1) : bad(i) THEN "InvalidCircuit"
        ELSE IF VecLen(c.output_gates) = 0 THEN "InvalidCircuit"
        ELSE IF \E j \in DOMAIN c.output_gates : c.output_gates[j] >= AsU32(n)
             THEN "InvalidCircuit"
        ELSE IF c.and_gates > MAX_AND_GATES THEN "MaxCircuitSizeExceeded"
        ELSE IF n > MAX_GATES THEN "MaxCircuitSizeExceeded"
        ELSE "Ok"

\* validate_contributor_input that accepts an input with bits to spare
validate_contributor_input_min(c, input) ==
    IF CountGates(c.gates, "InContrib", VecLen(c.gates)) <= VecLen(input)
    THEN "Ok" ELSE "InsufficientInput"

\* Circuit::validate_contributor_input
validate_contributor_input(c, input) ==
    IF CountGates(c.gates, "InContrib", VecLen(c.gates)) = VecLen(input)
    THEN "Ok" ELSE "InsufficientInput"

\* Circuit::validate_evaluator_input
validate_evaluator_input(c, input) ==
    IF CountGates(c.gates, "InEval", VecLen(c.gates)) = VecLen(input)
    THEN "Ok" ELSE "InsufficientInput"

\* the index of gate g among the gates of type ty (its rank in gate order)
RankOf(gates, ty, g) == CountGates(gates, ty, g)

\* the index of gate g among the gates that consume a wire aBit
AbitRank(gates, g) ==
    CountGates(gates, "InContrib", g) + CountGates(gates, "InEval", g)
        + CountGates(gates, "And", g)

\* evaluation in the clear, gate by gate (the reference the tests compare with)
RECURSIVE PlainWire(_, _, _, _)
PlainWire(c, a, b, g) ==
    LET gate == c.gates[g]
    IN  CASE gate.t = "InContrib" -> a[RankOf(c.gates, "InContrib", g)]
          [] gate.t = "InEval" -> b[RankOf(c.gates, "InEval", g)]
          [] gate.t = "Xor" -> PlainWire(c, a, b, gate.a) # PlainWire(c, a, b, gate.b)
          [] gate.t = "And" -> PlainWire(c, a, b, gate.a) /\ PlainWire(c, a, b, gate.b)
          [] gate.t = "Not" -> ~PlainWire(c, a, b, gate.a)

plain_eval(c, a, b) ==
    [j \in DOMAIN c.output_gates |-> PlainWire(c, a, b, c.output_gates[j])]

(***************************************************************************)
(* Results of fallible functions, messages                                 *)
(***************************************************************************)

NoMsg == [ty |-> "None"]

\* bytes that no deserializer accepts
Garbage == [ty |-> "Garbage"]

Fail(e) == [err |-> e, st |-> [step |-> "Failed"], msg |-> NoMsg]

Ok(st, msg) == [err |-> "Ok", st |-> st, msg |-> msg]

\* serialize(&(reply1, reply2)) for two serialized messages
PairMsg(m1, m2) == [ty |-> "MsgPair", m1 |-> m1, m2 |-> m2]

BitShare_default == [key |-> 0, mac |-> 0, bit |-> FALSE]

\* types.rs BitShare::xor
BitShare_xor(x, y) ==
    [key |-> Xor(x.key, y.key), mac |-> Xor(x.mac, y.mac), bit |-> x.bit # y.bit]

\* types.rs PartialBitShare::verify
PartialBitShare_verify(share, key, delta) ==
    Xor(IfBit(share.bit, delta), key) = share.mac

(***************************************************************************)
(* Base OT (ot_base.rs): the group is Z_Q, written additively, G = 1       *)
(***************************************************************************)

\* Sender::new
BaseSender_new(private_key) ==
    [private_key |-> private_key,
     pub_key |-> private_key % Q,
     pub_key_squared |-> (private_key * private_key) % Q]

\* Sender::send
BaseSender_send(s, upstream_init, messages) ==
    LET up == (upstream_init * s.private_key) % Q
        key0 == Xor(hash_ot(s.pub_key, up), messages[0])
        key1 == Xor(hash_ot(s.pub_key, (up + Q - s.pub_key_squared) % Q), messages[1])
    IN  [j \in 0..1 |-> IF j = 0 THEN key0 ELSE key1]

\* Receiver::init
BaseReceiver_init(private_key, upstream_init, choice) ==
    LET my_pub_key == private_key % Q
    IN  [msg |-> IF choice THEN (upstream_init + my_pub_key) % Q ELSE my_pub_key,
         r |-> [private_key |-> private_key,
                upstream_pub_key |-> upstream_init,
                choice |-> choice]]

\* Receiver::recv
BaseReceiver_recv(r, upstream_init_reply) ==
    Xor(hash_ot(r.upstream_pub_key, (r.upstream_pub_key * r.private_key) % Q),
        upstream_init_reply[B2N(r.choice)])

(***************************************************************************)
(* OT extension (leakydelta_ot.rs)                                         *)
(***************************************************************************)

\* the k-th u128 of ChaCha20Rng::from_seed(seed)
Prg(seed, k) == RngU128(RngFromSeed(seed), k)

\* matrix_transpose / transpose_column
matrix_transpose(t_i) ==
    [i \in 0..(BLOCK_SIZE - 1) |-> Pack([r \in 0..(BLOCK_SIZE - 1) |-> Bit(t_i[r], i)])]

\* ReceiverInitializer::init
ReceiverInitializer_init(rng) ==
    LET senders == [i \in 0..(K - 1) |-> BaseSender_new(RngScalar(rng, i))]
        ot_messages == [i \in 0..(K - 1) |->
                          [j \in 0..1 |-> RngBytes32(rng, K + 2 * i + j)]]
    IN  [r_init |-> [senders |-> senders, ot_messages |-> ot_messages],
         msg |-> [i \in 0..(K - 1) |-> senders[i].pub_key],
         rng |-> RngAdvance(rng, 3 * K)]

\* ReceiverInitializer::recv
ReceiverInitializer_recv(r_init, m) ==
    [r |-> [otg0 |-> [i \in 0..(K - 1) |-> r_init.ot_messages[i][0]],
            otg1 |-> [i \in 0..(K - 1) |-> r_init.ot_messages[i][1]]],
     msg |-> [i \in 0..(K - 1) |->
                BaseSender_send(r_init.senders[i], m[i], r_init.ot_messages[i])]]

\* SenderInitializer::init
SenderInitializer_init(rng, delta, m) ==
    LET rcv(i) == BaseReceiver_init(RngScalar(rng, i), m[i], TestBit(delta, i))
    IN  [s |-> [delta |-> delta, receivers |-> [i \in 0..(K - 1) |-> rcv(i).r]],
         msg |-> [i \in 0..(K - 1) |-> rcv(i).msg],
         rng |-> RngAdvance(rng, K)]

\* SenderInitializer::recv
SenderInitializer_recv(s, m) ==
    [delta |-> s.delta,
     otg |-> [i \in 0..(K - 1) |-> BaseReceiver_recv(s.receivers[i], m[i])]]

\* the sender's rows without the correction by the bits of delta
LeakyOtSender_send_uncorrected(s, batch, ot_rx) ==
    matrix_transpose([i \in 0..(BLOCK_SIZE - 1) |-> Prg(s.otg[i], batch)])

\* LeakyOtSender::send, for the batch number batch of the stream
LeakyOtSender_send(s, batch, ot_rx) ==
    matrix_transpose([i \in 0..(BLOCK_SIZE - 1) |->
        Xor(Prg(s.otg[i], batch), IfBit(TestBit(s.delta, i), ot_rx[i]))])

\* LeakyOtReceiver::new_batch, for the batch number batch of the stream
LeakyOtReceiver_new_batch(r, batch, random_bits) ==
    LET t_i == [i \in 0..(BLOCK_SIZE - 1) |-> Prg(r.otg0[i], batch)]
    IN  [ot_out |-> [i \in 0..(BLOCK_SIZE - 1) |->
                        Xor(Xor(t_i[i], Prg(r.otg1[i], batch)), random_bits)],
         macs_out |-> matrix_transpose(t_i)]

(***************************************************************************)
(* Coin tossing (protocol/cointossing.rs)                                  *)
(***************************************************************************)

\* cointossing::init: the coin share and the commitment message
cointossing_init(coin) == [coin_share |-> coin, msg |-> hash_coinshare(coin)]

\* cointossing::finish without the comparison with the commitment
cointossing_finish_unchecked(coin_share, upstream_hash, upstream_coin) ==
    [err |-> "Ok", coin |-> Xor(coin_share, upstream_coin)]

\* cointossing::finish
cointossing_finish(coin_share, upstream_hash, upstream_coin) ==
    IF upstream_hash # hash_coinshare(upstream_coin)
    THEN [err |-> "MacError", coin |-> 0]
    ELSE [err |-> "Ok", coin |-> Xor(coin_share, upstream_coin)]

(***************************************************************************)
(* Protocol steps (states.rs)                                              *)
(***************************************************************************)

\* bucket_size with thresholds that are not themselves included
bucket_size_exclusive(circuit) ==
    IF circuit.and_gates > BucketThreshold3 THEN 3
    ELSE IF circuit.and_gates > BucketThreshold4 THEN 4
    ELSE 5

\* bucket_size
bucket_size(circuit) ==
    IF circuit.and_gates >= BucketThreshold3 THEN 3
    ELSE IF circuit.and_gates >= BucketThreshold4 THEN 4
    ELSE 5

\* init_ot1 without the alignment of the triple bits to TRIPLES
init_ot1_blocks_unaligned(p) ==
    LET wire_abits == p.and_gates + p.eval_inputs + p.contrib_inputs
        triples_bits == p.and_gates * 3 * bucket_size(p)
    IN  (wire_abits + triples_bits + BLOCK_SIZE - 1) \div BLOCK_SIZE

\* the block count of init_ot1
init_ot1_blocks(p) ==
    LET wire_abits == p.and_gates + p.eval_inputs + p.contrib_inputs
        triples_bits == p.and_gates * 3 * bucket_size(p)
        triples_bits_aligned == ((triples_bits + TRIPLES - 1) \div TRIPLES) * TRIPLES
        total_abits == wire_abits + triples_bits_aligned
        num_abits_aligned == ((total_abits + BLOCK_SIZE - 1) \div BLOCK_SIZE) * BLOCK_SIZE
    IN  num_abits_aligned \div BLOCK_SIZE

\* init_ot1
init_ot1(delta, rng, p) ==
    IF validate(p) # "Ok" THEN Fail(validate(p))
    ELSE
    LET ri == ReceiverInitializer_init(rng)
        coin == RngBytes32(ri.rng, 0)
        ct == cointossing_init(coin)
    IN  Ok([rng |-> RngAdvance(ri.rng, 1),
            delta |-> delta,
            r_init |-> ri.r_init,
            coin_share |-> ct.coin_share,
            blocks |-> init_ot1_blocks(p)],
           [ty |-> "OtInitAndBytes", ot_init |-> ri.msg, bytes |-> ct.msg])

\* init_ot2
init_ot2(state, msg) ==
    IF msg.ty # "OtInitAndBytes" THEN Fail("BincodeError")
    ELSE
    LET sender == SenderInitializer_init(state.rng, state.delta, msg.ot_init)
    IN  Ok([rng |-> sender.rng,
            delta |-> state.delta,
            r_init |-> state.r_init,
            s |-> sender.s,
            coin_share |-> state.coin_share,
            coin_commitment |-> msg.bytes,
            blocks |-> state.blocks],
           [ty |-> "OtInitAndBytes", ot_init |-> sender.msg, bytes |-> state.coin_share])

\* init_ot3
init_ot3(state, msg) ==
    IF msg.ty # "OtInitAndBytes" THEN Fail("BincodeError")
    ELSE
    LET fin == cointossing_finish(state.coin_share, state.coin_commitment, msg.bytes)
        rr == ReceiverInitializer_recv(state.r_init, msg.ot_init)
    IN  IF fin.err # "Ok" THEN Fail(fin.err)
        ELSE Ok([rng |-> state.rng,
                 delta |-> state.delta,
                 s |-> state.s,
                 r |-> rr.r,
                 coin |-> fin.coin,
                 blocks |-> state.blocks],
                [ty |-> "OtInitReply", replies |-> rr.msg])

\* init_ot4
init_ot4(state, msg) ==
    IF msg.ty # "OtInitReply" THEN Fail("OtInitDeserializationError")
    ELSE
    LET s == SenderInitializer_recv(state.s, msg.replies)
        bits(b) == RngU128(state.rng, b)
        batch(b) == LeakyOtReceiver_new_batch(state.r, b, bits(b))
        abits == [n \in 0..(state.blocks * BLOCK_SIZE - 1) |->
                    [key |-> 0,
                     mac |-> batch(n \div BLOCK_SIZE).macs_out[n % BLOCK_SIZE],
                     bit |-> TestBit(bits(n \div BLOCK_SIZE), n % BLOCK_SIZE)]]
    IN  Ok([rng |-> RngAdvance(state.rng, state.blocks),
            delta |-> state.delta,
            blocks |-> state.blocks,
            coin |-> state.coin,
            abits |-> abits,
            s |-> s],
           [ty |-> "Blocks",
            blocks |-> [b \in 0..(state.blocks - 1) |-> batch(b).ot_out]])

\* v[start .. start + n - 1] as a vector
SubVec(v, start, n) == [i \in 0..(n - 1) |-> v[start + i]]

\* the u128 holding the bits of and_bits[3 * i + off], i < BLOCK_SIZE
CollectBits(bits, base, off) ==
    Pack([i \in 0..(BLOCK_SIZE - 1) |-> B2N(bits[base + 3 * i + off].bit)])

\* leakyand.rs compute_leaky_and_hashes, entry i of the block
compute_leaky_and_hashes(delta, random_bits, authenticated_bits_y, key, i) ==
    LET random_bit == Bit(random_bits, i)
        y_bit == Bit(authenticated_bits_y, i)
    IN  [j \in 0..1 |->
           IF j = 0 THEN Xor(hash(key), random_bit)
           ELSE Xor(Xor(hash(Xor(delta, key)), random_bit), y_bit)]

\* derive_and_shares that reads the hash of the bit 0 whatever the own bit is
derive_and_shares_row0(random_bits, authenticated_bits, bits, bits_base, and_hashes, base) ==
    LET is_set(i) ==
            Xor(and_hashes[base + i][0], hash(bits[bits_base + 3 * i].mac)) # 0
    IN  Xor(Pack([i \in 0..(K - 1) |-> B2N(is_set(i))]), random_bits)

\* leakyand.rs derive_and_shares for the block starting at and_hashes[base]
derive_and_shares(random_bits, authenticated_bits, bits, bits_base, and_hashes, base) ==
    LET is_set(i) ==
            Xor(and_hashes[base + i][Bit(authenticated_bits, i)],
                hash(bits[bits_base + 3 * i].mac)) # 0
    IN  Xor(Pack([i \in 0..(K - 1) |-> B2N(is_set(i))]), random_bits)

\* OtAndsState1::compute_and_ot_data
compute_and_ot_data(state) ==
    LET and_bits == state.and_triples
        num_blocks == (VecLen(and_bits) \div BLOCK_SIZE) \div 3
        r(i) == RngU128(state.rng, i)
    IN  [st |-> [state EXCEPT !.rng = RngAdvance(state.rng, num_blocks),
                              !.random_bits = [i \in 0..(num_blocks - 1) |-> r(i)]],
         and_hashes |->
            [n \in 0..(num_blocks * BLOCK_SIZE - 1) |->
               LET i == n \div BLOCK_SIZE
                   j == n % BLOCK_SIZE
                   base == i * BLOCK_SIZE * 3
               IN  compute_leaky_and_hashes(state.delta, r(i),
                       CollectBits(and_bits, base, 1), and_bits[base + 3 * j].key, j)]]

\* OtAndsState1::compute_and_shares
compute_and_shares(state, and_hashes, role) ==
    LET and_bits == state.and_triples
        num_blocks == (VecLen(and_bits) \div BLOCK_SIZE) \div 3
        share(i) ==
            LET base == i * BLOCK_SIZE * 3
                x == CollectBits(and_bits, base, 0)
                y == CollectBits(and_bits, base, 1)
                z == CollectBits(and_bits, base, 2)
                d == derive_and_shares(state.random_bits[i], x, and_bits, base,
                                       and_hashes, i * BLOCK_SIZE)
            IN  IF role = "Contributor" THEN Xor(Xor(d, BitAnd(x, y)), z) ELSE d
    IN  IF VecLen(and_hashes) # num_blocks * BLOCK_SIZE
        THEN [err |-> "InsufficientAndShares", v |-> EmptyVec]
        ELSE [err |-> "Ok", v |-> [i \in 0..(num_blocks - 1) |-> share(i)]]

\* ot_ands1
ot_ands1(state, msg, circuit) ==
    IF msg.ty # "Blocks" THEN Fail("BincodeError")
    ELSE
    LET blocks == msg.blocks
        nb == VecLen(blocks)
        n_and_gates == circuit.and_gates
        n_wire_abits == circuit.and_gates + circuit.eval_inputs + circuit.contrib_inputs
        abits_blocks == (n_wire_abits + BLOCK_SIZE - 1) \div BLOCK_SIZE
        keyed == [n \in DOMAIN state.abits |->
                    IF n \div BLOCK_SIZE < nb
                    THEN [state.abits[n] EXCEPT !.key =
                            LeakyOtSender_send(state.s, n \div BLOCK_SIZE,
                                               blocks[n \div BLOCK_SIZE])[n % BLOCK_SIZE]]
                    ELSE state.abits[n]]
        wire_abits_start == (state.blocks - abits_blocks) * BLOCK_SIZE
        st1 == [rng |-> state.rng,
                delta |-> state.delta,
                coin |-> state.coin,
                and_triples |-> SubVec(keyed, 0, wire_abits_start),
                wire_abits |-> SubVec(keyed, wire_abits_start, n_wire_abits),
                and_shares |-> EmptyVec,
                random_bits |-> EmptyVec,
                r_and_rand_key |-> EmptyVec,
                r_and_rand_hash |-> EmptyVec,
                r_prime |-> EmptyVec]
        data == compute_and_ot_data(st1)
    IN  IF \E b \in 0..(nb - 1) : b <= state.blocks /\ VecLen(blocks[b]) # BLOCK_SIZE
        THEN Fail("OtBlockDeserializationError")
        ELSE IF nb > state.blocks THEN Fail("Panic")
        ELSE IF (state.blocks - abits_blocks) % 3 # 0 THEN Fail("Panic")
        ELSE Ok(data.st, [ty |-> "AndHashes", v |-> data.and_hashes])

\* ot_ands1: the split of the blocks * BLOCK_SIZE authenticated bits into the
\* triples, [0, wire_abits_start), and the wire bits,
\* [wire_abits_start, wire_abits_end)
ot_ands1_split(blocks, circuit) ==
    LET n_wire_abits == circuit.and_gates + circuit.eval_inputs + circuit.contrib_inputs
        abits_blocks == (n_wire_abits + BLOCK_SIZE - 1) \div BLOCK_SIZE
        wire_abits_start == (blocks - abits_blocks) * BLOCK_SIZE
    IN  [abits_blocks |-> abits_blocks,
         asserted |-> (blocks - abits_blocks) % 3 = 0,
         triples_len |-> wire_abits_start,
         wire_abits_start |-> wire_abits_start,
         wire_abits_end |-> wire_abits_start + n_wire_abits,
         abits_len |-> blocks * BLOCK_SIZE]

\* compute_u
compute_u(delta, and_bits) ==
    [t \in 0..((VecLen(and_bits) \div 3) - 1) |->
       LET k_x1 == and_bits[3 * t].key
           b_x2 == and_bits[3 * t].bit
           k_y1 == and_bits[3 * t + 1].key
           b_y2 == and_bits[3 * t + 1].bit
           k_z1 == and_bits[3 * t + 2].key
           b_z2 == and_bits[3 * t + 2].bit
           kz == Xor(k_z1, IfBit(b_z2, delta))
           kyz == Xor(Xor(k_y1, k_z1), IfBit(b_y2 # b_z2, delta))
           t0 == hash_keys(k_x1, kz)
           u0 == Xor(t0, hash_keys(Xor(k_x1, delta), kyz))
           t1 == hash_keys(k_x1, kyz)
           u1 == Xor(t1, hash_keys(Xor(k_x1, delta), kz))
       IN  IF b_x2 THEN u1 ELSE u0]

\* the fields OtAndsState2..5 carry over from the previous state
AndsCarry(state, and_triples) ==
    [rng |-> state.rng,
     delta |-> state.delta,
     coin |-> state.coin,
     and_triples |-> and_triples,
     wire_abits |-> state.wire_abits,
     r_and_rand_key |-> state.r_and_rand_key,
     r_and_rand_hash |-> state.r_and_rand_hash,
     r_prime |-> state.r_prime]

\* ot_ands3_update_z2_contrib
ot_ands3_update_z2_contrib(state, msg) ==
    IF msg.ty # "MacVec" THEN Fail("BincodeError")
    ELSE
    LET and_shares == msg.v
        and_bits == state.and_triples
        num_blocks == (VecLen(and_bits) \div BLOCK_SIZE) \div 3
        upd == [n \in DOMAIN and_bits |->
                  IF n % 3 = 2
                     /\ TestBit(and_shares[n \div (3 * BLOCK_SIZE)],
                                (n % (3 * BLOCK_SIZE)) \div 3)
                  THEN [and_bits[n] EXCEPT !.key = Xor(@, state.delta)]
                  ELSE and_bits[n]]
    IN  IF VecLen(and_shares) # num_blocks THEN Fail("InsufficientAndShares")
        ELSE Ok(AndsCarry(state, upd),
                [ty |-> "MacVec", v |-> compute_u(state.delta, upd)])

\* ot_ands3_update_z2_eval
ot_ands3_update_z2_eval(state, msg) ==
    IF msg.ty # "MacVec" THEN Fail("BincodeError")
    ELSE
    LET upstream_ands == msg.v
        and_bits == state.and_triples
        num_blocks == (VecLen(and_bits) \div BLOCK_SIZE) \div 3
        d(block) ==
            LET base == block * BLOCK_SIZE * 3
                x == CollectBits(and_bits, base, 0)
                y == CollectBits(and_bits, base, 1)
                r == CollectBits(and_bits, base, 2)
                z_2 == Xor(Xor(state.and_shares[block], BitAnd(x, y)), upstream_ands[block])
            IN  Xor(r, z_2)
        upd == [n \in DOMAIN and_bits |->
                  IF n % 3 = 2
                  THEN [and_bits[n] EXCEPT !.bit =
                          (@ # TestBit(d(n \div (3 * BLOCK_SIZE)),
                                       (n % (3 * BLOCK_SIZE)) \div 3))]
                  ELSE and_bits[n]]
    IN  IF VecLen(and_bits) # num_blocks * BLOCK_SIZE * 3 THEN Fail("InsufficientAndShares")
        ELSE IF VecLen(upstream_ands) < num_blocks THEN Fail("Panic")
        ELSE Ok(AndsCarry(state, upd),
                PairMsg([ty |-> "MacVec", v |-> [b \in 0..(num_blocks - 1) |-> d(b)]],
                        [ty |-> "MacVec", v |-> compute_u(state.delta, upd)]))

\* ot_ands4
ot_ands4(state, msg) ==
    IF msg.ty # "MacVec" THEN Fail("BincodeError")
    ELSE
    LET u_from_other_party == msg.v
        and_bits == state.and_triples
        n == VecLen(and_bits) \div 3
        r(t) == RngU128(state.rng, 2 * t)
        rand_for_eq_box_hash(t) == RngU128(state.rng, 2 * t + 1)
        w(t) ==
            LET k_x1 == and_bits[3 * t].key
                m_x2 == and_bits[3 * t].mac
                b_x2 == and_bits[3 * t].bit
                m_y2 == and_bits[3 * t + 1].mac
                m_z2 == and_bits[3 * t + 2].mac
                u == u_from_other_party[t]
                v0 == hash_keys(m_x2, m_z2)
                v1 == hash_keys(m_x2, Xor(m_z2, m_y2))
            IN  IF b_x2
                THEN [j \in 0..1 |->
                        IF j = 0 THEN Xor(Xor(Xor(hash_key(k_x1), v1), u), r(t))
                        ELSE Xor(Xor(Xor(hash_key(Xor(k_x1, state.delta)), v0), u), r(t))]
                ELSE [j \in 0..1 |->
                        IF j = 0 THEN Xor(Xor(hash_key(k_x1), v0), r(t))
                        ELSE Xor(Xor(hash_key(Xor(k_x1, state.delta)), v1), r(t))]
        r_and_rand == [t \in 0..(n - 1) |->
                         [j \in 0..1 |-> IF j = 0 THEN r(t) ELSE rand_for_eq_box_hash(t)]]
    IN  IF VecLen(u_from_other_party) < n THEN Fail("Panic")
        ELSE Ok([AndsCarry(state, and_bits) EXCEPT
                    !.rng = RngAdvance(state.rng, 2 * n),
                    !.r_and_rand_key = r_and_rand],
                [ty |-> "MacVecAndPairs",
                 v |-> [t \in 0..(n - 1) |-> hash_keys(r(t), rand_for_eq_box_hash(t))],
                 pairs |-> [t \in 0..(n - 1) |-> w(t)]])

\* ot_ands5
ot_ands5(state, msg) ==
    IF msg.ty # "MacVecAndPairs" THEN Fail("BincodeError")
    ELSE
    LET r_and_rand_hashed == msg.v
        w_from_other_party == msg.pairs
        and_bits == state.and_triples
        n == VecLen(and_bits) \div 3
        rp(t) ==
            LET k_x1 == and_bits[3 * t].key
                m_x2 == and_bits[3 * t].mac
                b_x2 == and_bits[3 * t].bit
                k_y1 == and_bits[3 * t + 1].key
                b_y2 == and_bits[3 * t + 1].bit
                k_z1 == and_bits[3 * t + 2].key
                b_z2 == and_bits[3 * t + 2].bit
                t0 == hash_keys(k_x1, Xor(k_z1, IfBit(b_z2, state.delta)))
                t1 == hash_keys(k_x1, Xor(Xor(k_y1, k_z1), IfBit(b_y2 # b_z2, state.delta)))
                t_x2 == IF b_x2 THEN t1 ELSE t0
                w_x1_x2 == w_from_other_party[t][B2N(b_x2)]
            IN  Xor(Xor(hash(m_x2), w_x1_x2), t_x2)
        r_prime == [t \in 0..(n - 1) |-> rp(t)]
    IN  IF VecLen(w_from_other_party) < n THEN Fail("Panic")
        ELSE Ok([AndsCarry(state, and_bits) EXCEPT
                    !.r_and_rand_hash = r_and_rand_hashed,
                    !.r_prime = r_prime],
                [ty |-> "MacVecAndPairs", v |-> r_prime, pairs |-> state.r_and_rand_key])

\* check_hash
check_hash(state, r_prime, r_and_rand) ==
    IF VecLen(r_prime) # VecLen(r_and_rand) \/ VecLen(r_prime) # VecLen(state.r_and_rand_key)
    THEN "UnexpectedMessageType"
    ELSE IF VecLen(state.r_and_rand_hash) < VecLen(r_and_rand) THEN "Panic"
    ELSE
    LET hash_ok(i) == state.r_and_rand_hash[i] = hash_keys(r_and_rand[i][0], r_and_rand[i][1])
        r_equal(i) == r_and_rand[i][0] = state.r_prime[i]
        r_prime_check(i) == state.r_and_rand_key[i][0] = r_prime[i]
        success == /\ \A i \in DOMAIN r_and_rand : hash_ok(i) /\ r_equal(i)
                   /\ \A i \in DOMAIN r_prime : r_prime_check(i)
    IN  IF ~success THEN "LeakyAndNotEqual" ELSE "Ok"

\* the remainder of Rust's % on i32: truncated, with the sign of the dividend
TruncRem(v, m) == IF v >= 0 THEN v % m ELSE 0 - ((0 - v) % m)

\* the swaps of new_permutation for i, i - 1, .., 0
RECURSIVE PermSwaps(_, _, _)
PermSwaps(permutation, idx, i) ==
    IF i < 0 THEN permutation
    ELSE LET rem == TruncRem(idx[i], i + 1)
             j == IF rem < 0 THEN 0 - rem ELSE rem
         IN  PermSwaps([permutation EXCEPT ![i] = permutation[j], ![j] = permutation[i]],
                       idx, i - 1)

\* a permutation that takes the drawn index of every position as it is
new_permutation_drawn(rng, total_abits) ==
    [i \in 0..(total_abits - 1) |->
       LET rem == TruncRem(RngI32(rng, i), i + 1)
       IN  IF rem < 0 THEN 0 - rem ELSE rem]

\* AndsBucketingState::init::new_permutation
new_permutation(rng, total_abits) ==
    PermSwaps([i \in 0..(total_abits - 1) |-> i],
              [i \in 0..(total_abits - 1) |-> RngI32(rng, i)],
              total_abits - 1)

\* AndsBucketingState::init
AndsBucketingState_init(state, circuit) ==
    LET bs == bucket_size(circuit)
        length == circuit.and_gates
        permutation == new_permutation(RngFromSeed(state.coin), length * bs)
        d(n) == BitShare_xor(state.and_triples[permutation[(n \div bs) * bs] * 3 + 1],
                             state.and_triples[permutation[n] * 3 + 1])
        bits == [n \in 0..(length * bs - 1) |-> IF n % bs = 0 THEN FALSE ELSE d(n).bit]
        macs == [n \in 0..(length * bs - 1) |-> IF n % bs = 0 THEN 0 ELSE d(n).mac]
    IN  IF VecLen(state.and_triples) < length * bs THEN Fail("Panic")
        ELSE Ok([rng |-> state.rng,
                 delta |-> state.delta,
                 bucketing_bits |-> bits,
                 wire_abits |-> state.wire_abits,
                 permutation |-> permutation,
                 and_triples |-> state.and_triples,
                 length |-> length,
                 bucket_size |-> bs],
                [ty |-> "BoolsAndMacs", bits |-> bits, macs |-> macs])

\* ot_ands6
ot_ands6(state, msg, circuit) ==
    IF msg.ty # "MacVecAndPairs" THEN Fail("BincodeError")
    ELSE LET chk == check_hash(state, msg.v, msg.pairs)
         IN  IF chk # "Ok" THEN Fail(chk)
             ELSE AndsBucketingState_init(state, circuit)

\* the combination of a bucket that takes each triple one position early, so
\* that the first triple of the bucket is combined with itself
RECURSIVE CombineBucket_shifted(_, _, _, _, _)
CombineBucket_shifted(self, bucketing_bits, i, j, acc) ==
    IF j >= self.bucket_size THEN acc
    ELSE LET idx == self.permutation[i * self.bucket_size + j - 1]
             x == BitShare_xor(acc[0], self.and_triples[idx * 3])
             z1 == BitShare_xor(acc[2], self.and_triples[idx * 3 + 2])
             z == IF bucketing_bits[i * self.bucket_size + j]
                  THEN BitShare_xor(z1, self.and_triples[idx * 3])
                  ELSE z1
         IN  CombineBucket_shifted(self, bucketing_bits, i, j + 1,
                           [k \in 0..2 |-> IF k = 0 THEN x ELSE IF k = 1 THEN acc[1] ELSE z])

\* the combination of the triples of bucket i, from position j of the bucket on
RECURSIVE CombineBucket(_, _, _, _, _)
CombineBucket(self, bucketing_bits, i, j, acc) ==
    IF j >= self.bucket_size THEN acc
    ELSE LET idx == self.permutation[i * self.bucket_size + j]
             x == BitShare_xor(acc[0], self.and_triples[idx * 3])
             z1 == BitShare_xor(acc[2], self.and_triples[idx * 3 + 2])
             z == IF bucketing_bits[i * self.bucket_size + j]
                  THEN BitShare_xor(z1, self.and_triples[idx * 3])
                  ELSE z1
         IN  CombineBucket(self, bucketing_bits, i, j + 1,
                           [k \in 0..2 |-> IF k = 0 THEN x ELSE IF k = 1 THEN acc[1] ELSE z])

\* update_triples without the checking step on the revealed pairs
update_triples_unchecked(self, msg) ==
    IF msg.ty # "BoolsAndMacs" THEN Fail("BincodeError")
    ELSE
    LET upstream_bits == msg.bits
        bs == self.bucket_size
        perm == self.permutation
        bucketing_bits == [n \in DOMAIN self.bucketing_bits |->
                             self.bucketing_bits[n] # upstream_bits[n]]
        first(i) == [k \in 0..2 |-> self.and_triples[perm[i * bs] * 3 + k]]
        and_triples == [n \in 0..(self.length * 3 - 1) |->
                          CombineBucket(self, bucketing_bits, n \div 3, 1, first(n \div 3))[n % 3]]
    IN  IF VecLen(upstream_bits) # VecLen(self.bucketing_bits)
           \/ VecLen(msg.macs) # VecLen(self.bucketing_bits)
        THEN Fail("InsufficientInput")
        ELSE Ok([self EXCEPT !.and_triples = and_triples, !.bucketing_bits = EmptyVec], NoMsg)

\* AndsBucketingState::update_triples
update_triples(self, msg) ==
    IF msg.ty # "BoolsAndMacs" THEN Fail("BincodeError")
    ELSE
    LET upstream_bits == msg.bits
        upstream_macs == msg.macs
        bs == self.bucket_size
        perm == self.permutation
        d(n) == BitShare_xor(self.and_triples[perm[(n \div bs) * bs] * 3 + 1],
                             self.and_triples[perm[n] * 3 + 1])
        checks_succeeded ==
            Cardinality({n \in 0..(self.length * bs - 1) :
                /\ n % bs # 0
                /\ PartialBitShare_verify([bit |-> upstream_bits[n], mac |-> upstream_macs[n]],
                                          d(n).key, self.delta)})
        bucketing_bits == [n \in DOMAIN self.bucketing_bits |->
                             self.bucketing_bits[n] # upstream_bits[n]]
        first(i) == [k \in 0..2 |-> self.and_triples[perm[i * bs] * 3 + k]]
        and_triples == [n \in 0..(self.length * 3 - 1) |->
                          CombineBucket(self, bucketing_bits, n \div 3, 1, first(n \div 3))[n % 3]]
    IN  IF VecLen(upstream_bits) # VecLen(self.bucketing_bits)
           \/ VecLen(upstream_macs) # VecLen(self.bucketing_bits)
        THEN Fail("InsufficientInput")
        ELSE IF checks_succeeded # self.length * (bs - 1) THEN Fail("MacError")
        ELSE Ok([self EXCEPT !.and_triples = and_triples, !.bucketing_bits = EmptyVec], NoMsg)

\* the index of the k-th gate of type ty (the gates are visited in index order)
GateAt(gates, ty, k) ==
    CHOOSE g \in DOMAIN gates : gates[g].t = ty /\ RankOf(gates, ty, g) = k

WireMask_default == [label_0 |-> 0, bit |-> BitShare_default]

\* types.rs WireMask::label
WireMask_label(mask, bit, delta) == IF bit THEN Xor(mask.label_0, delta) ELSE mask.label_0

\* types.rs WireMask::xor
WireMask_xor(lhs, rhs) ==
    [label_0 |-> Xor(lhs.label_0, rhs.label_0), bit |-> BitShare_xor(lhs.bit, rhs.bit)]

\* types.rs WireMask::not
WireMask_not(mask, delta) == [label_0 |-> Xor(mask.label_0, delta), bit |-> mask.bit]

\* preprocessing_assign_masks: the mask of gate g
RECURSIVE MaskOf(_, _, _, _, _)
MaskOf(circuit, abits, rng, delta, g) ==
    LET gate == circuit.gates[g]
    IN  IF gate.t \in {"InContrib", "InEval", "And"}
        THEN [bit |-> abits[AbitRank(circuit.gates, g)],
              label_0 |-> RngU128(rng, AbitRank(circuit.gates, g))]
        ELSE IF gate.t = "Xor"
        THEN WireMask_xor(MaskOf(circuit, abits, rng, delta, gate.a),
                          MaskOf(circuit, abits, rng, delta, gate.b))
        ELSE WireMask_not(MaskOf(circuit, abits, rng, delta, gate.a), delta)

\* preprocessing_assign_masks
preprocessing_assign_masks(abits, rng, delta, circuit) ==
    [g \in DOMAIN circuit.gates |-> MaskOf(circuit, abits, rng, delta, g)]

\* preprocessing_and_gate_bits
preprocessing_and_gate_bits(circuit, masks, and_triples) ==
    LET g(k) == GateAt(circuit.gates, "And", k)
    IN  [lhs |-> [k \in 0..(circuit.and_gates - 1) |->
                    masks[circuit.gates[g(k)].a].bit.bit # and_triples[3 * k].bit],
         rhs |-> [k \in 0..(circuit.and_gates - 1) |->
                    masks[circuit.gates[g(k)].b].bit.bit # and_triples[3 * k + 1].bit]]

\* AndsBucketingState::finish
finish(self, msg, circuit) ==
    LET revealed(state, masks, and_bits) ==
            Ok([delta |-> state.delta,
                and_triples |-> state.and_triples,
                masks |-> masks,
                lhs_and_bits |-> and_bits.lhs,
                rhs_and_bits |-> and_bits.rhs],
               [ty |-> "BoolsAndBools", a |-> and_bits.lhs, b |-> and_bits.rhs])
        masked(state, masks) ==
            revealed(state, masks, preprocessing_and_gate_bits(circuit, masks, state.and_triples))
        updated(upd) ==
            IF upd.err # "Ok" THEN upd
            ELSE masked(upd.st,
                        preprocessing_assign_masks(upd.st.wire_abits, upd.st.rng, upd.st.delta,
                                                   circuit))
    IN  updated(update_triples(self, msg))

\* OtAndsState6::sigma_mac
sigma_mac(self, ands, role) ==
    LET r0 == self.and_triples[3 * ands + 2]
        r1 == IF self.lhs_and_bits[ands] THEN BitShare_xor(r0, self.and_triples[3 * ands + 1])
              ELSE r0
        r2 == IF self.rhs_and_bits[ands] THEN BitShare_xor(r1, self.and_triples[3 * ands])
              ELSE r1
    IN  IF self.lhs_and_bits[ands] /\ self.rhs_and_bits[ands]
        THEN IF role = "Contributor"
             THEN [r2 EXCEPT !.key = Xor(@, self.delta)]
             ELSE [r2 EXCEPT !.bit = ~@]
        ELSE r2

\* mac
mac(delta, value, bit) == Xor(value, IfBit(bit, delta))

\* compute_hashes_contrib without the delta added to the key of the last row
compute_hashes_contrib_unflipped(state, gate_index, output_mask, lhs, rhs, input_mask) ==
    LET h0 == BitShare_xor(output_mask.bit, input_mask)
        h1 == BitShare_xor(h0, lhs.bit)
        h2 == BitShare_xor(h0, rhs.bit)
        h3 == BitShare_xor(h1, rhs.bit)
        output_label == output_mask.label_0
        keyed(h) == [h EXCEPT !.key = mac(state.delta, Xor(h.key, output_label), h.bit)]
        l0 == lhs.label_0
        l1 == Xor(l0, state.delta)
        r0 == rhs.label_0
        r1 == Xor(r0, state.delta)
    IN  [row \in 0..3 |->
           CASE row = 0 -> BitShare_xor(keyed(h0), garbling_hash_new(l0, r0, gate_index, 0))
             [] row = 1 -> BitShare_xor(keyed(h1), garbling_hash_new(l0, r1, gate_index, 1))
             [] row = 2 -> BitShare_xor(keyed(h2), garbling_hash_new(l1, r0, gate_index, 2))
             [] row = 3 -> BitShare_xor(keyed(h3), garbling_hash_new(l1, r1, gate_index, 3))]

\* compute_hashes_contrib
compute_hashes_contrib(state, gate_index, output_mask, lhs, rhs, input_mask) ==
    LET h0 == BitShare_xor(output_mask.bit, input_mask)
        h1 == BitShare_xor(h0, lhs.bit)
        h2 == BitShare_xor(h0, rhs.bit)
        h3a == BitShare_xor(h1, rhs.bit)
        h3 == [h3a EXCEPT !.key = Xor(@, state.delta)]
        output_label == output_mask.label_0
        keyed(h) == [h EXCEPT !.key = mac(state.delta, Xor(h.key, output_label), h.bit)]
        l0 == lhs.label_0
        l1 == Xor(l0, state.delta)
        r0 == rhs.label_0
        r1 == Xor(r0, state.delta)
    IN  [row \in 0..3 |->
           CASE row = 0 -> BitShare_xor(keyed(h0), garbling_hash_new(l0, r0, gate_index, 0))
             [] row = 1 -> BitShare_xor(keyed(h1), garbling_hash_new(l0, r1, gate_index, 1))
             [] row = 2 -> BitShare_xor(keyed(h2), garbling_hash_new(l1, r0, gate_index, 2))
             [] row = 3 -> BitShare_xor(keyed(h3), garbling_hash_new(l1, r1, gate_index, 3))]

\* compute_hashes without the inversion of the last row's bit
compute_hashes_unflipped(output_mask, lhs, rhs, input_mask) ==
    LET h0 == BitShare_xor(output_mask.bit, input_mask)
        h1 == BitShare_xor(h0, lhs.bit)
        h2 == BitShare_xor(h0, rhs.bit)
        h3 == BitShare_xor(h1, rhs.bit)
    IN  [row \in 0..3 |->
           CASE row = 0 -> h0 [] row = 1 -> h1 [] row = 2 -> h2 [] row = 3 -> h3]

\* compute_hashes
compute_hashes(output_mask, lhs, rhs, input_mask) ==
    LET h0 == BitShare_xor(output_mask.bit, input_mask)
        h1 == BitShare_xor(h0, lhs.bit)
        h2 == BitShare_xor(h0, rhs.bit)
        h3a == BitShare_xor(h1, rhs.bit)
        h3 == [h3a EXCEPT !.bit = ~@]
    IN  [row \in 0..3 |->
           CASE row = 0 -> h0 [] row = 1 -> h1 [] row = 2 -> h2 [] row = 3 -> h3]

\* the (index, PartialBitShare) entries of the masks of the gates of type ty
MaskShares(circuit, masks, ty) ==
    [k \in 0..(CountGates(circuit.gates, ty, VecLen(circuit.gates)) - 1) |->
       LET g == GateAt(circuit.gates, ty, k)
       IN  [index |-> g, bit |-> masks[g].bit.bit, mac |-> masks[g].bit.mac]]

\* ot_ands8_contrib
ot_ands8_contrib(state0, msg1, circuit, input) ==
    IF msg1.ty # "BoolsAndBools" THEN Fail("BincodeError")
    ELSE
    LET x2 == msg1.a
        y2 == msg1.b
        n == VecLen(state0.lhs_and_bits)
        state == [state0 EXCEPT
                    !.lhs_and_bits = [i \in 0..(n - 1) |-> state0.lhs_and_bits[i] # x2[i]],
                    !.rhs_and_bits = [i \in 0..(n - 1) |-> state0.rhs_and_bits[i] # y2[i]]]
        masks == state.masks
        table(k) ==
            LET index == GateAt(circuit.gates, "And", k)
                gate == circuit.gates[index]
            IN  [gate |-> index,
                 values |-> compute_hashes_contrib(state, index, masks[index],
                                masks[gate.a], masks[gate.b],
                                sigma_mac(state, k, "Contributor"))]
        pending_from_a == circuit.contrib_inputs
        pending_from_b == circuit.eval_inputs
    IN  IF n # VecLen(x2) \/ VecLen(state0.rhs_and_bits) # VecLen(y2)
           \/ n # VecLen(state0.rhs_and_bits)
        THEN Fail("InsufficientAndShares")
        ELSE IF pending_from_a > VecLen(input) THEN Fail("InsufficientInput")
        ELSE IF pending_from_a + pending_from_b = 0 THEN Fail("InvalidCircuit")
        ELSE Ok([delta |-> state.delta,
                 pending_from_b |-> pending_from_b,
                 mac_checks_success |-> TRUE,
                 masks |-> state.masks],
                [ty |-> "TablesAndShares",
                 tables |-> [k \in 0..(circuit.and_gates - 1) |-> table(k)],
                 shares |-> MaskShares(circuit, masks, "InEval")])

Min(a, b) == IF a <= b THEN a ELSE b

AndTable_default == [row \in 0..3 |-> BitShare_default]

WireState_default ==
    [label |-> 0, masked_value |-> FALSE,
     my_and_table |-> AndTable_default, other_and_table |-> AndTable_default]

\* the outcome of the first entry, in order, whose outcome is not "Ok"
FirstFailure(n, outcome(_)) ==
    IF \A k \in 0..(n - 1) : outcome(k) = "Ok" THEN "Ok"
    ELSE outcome(CHOOSE k \in 0..(n - 1) :
                    outcome(k) # "Ok" /\ \A j \in 0..(k - 1) : outcome(j) = "Ok")

\* ot_ands8_eval
ot_ands8_eval(state0, msg1, msg2, circuit, input) ==
    IF msg1.ty # "BoolsAndBools" THEN Fail("BincodeError")
    ELSE
    LET upstream_lhs_bits == msg1.a
        upstream_rhs_bits == msg1.b
        n == VecLen(state0.lhs_and_bits)
        ngates == VecLen(circuit.gates)
        state == [state0 EXCEPT
                    !.lhs_and_bits = [i \in 0..(n - 1) |->
                                        state0.lhs_and_bits[i] # upstream_lhs_bits[i]],
                    !.rhs_and_bits = [i \in 0..(n - 1) |->
                                        state0.rhs_and_bits[i] # upstream_rhs_bits[i]]]
        ands == circuit.and_gates
        my_table(g) ==
            compute_hashes(state.masks[g], state.masks[circuit.gates[g].a],
                           state.masks[circuit.gates[g].b],
                           sigma_mac(state, RankOf(circuit.gates, "And", g), "Evaluator"))
        tables == msg2.tables
        input_mask_shares == msg2.shares
        table_outcome(k) ==
            IF tables[k].gate >= ngates THEN "Panic"
            ELSE IF circuit.gates[tables[k].gate].t # "And" THEN "UnexpectedGarbledTableShare"
            ELSE "Ok"
        other_table(g) ==
            IF \E k \in DOMAIN tables : tables[k].gate = g
            THEN tables[CHOOSE k \in DOMAIN tables :
                           /\ tables[k].gate = g
                           /\ \A j \in DOMAIN tables : tables[j].gate = g => j <= k].values
            ELSE AndTable_default
        wires == [g \in DOMAIN circuit.gates |->
                    IF circuit.gates[g].t = "And"
                    THEN [WireState_default EXCEPT !.my_and_table = my_table(g),
                                                   !.other_and_table = other_table(g)]
                    ELSE WireState_default]
        nin == Min(VecLen(input_mask_shares), VecLen(input))
        share_outcome(k) ==
            LET sh == input_mask_shares[k]
            IN  IF sh.index >= ngates THEN "Panic"
                ELSE IF circuit.gates[sh.index].t # "InEval" THEN "UnexpectedMessageType"
                ELSE IF ~PartialBitShare_verify(sh, state.masks[sh.index].bit.key, state.delta)
                THEN "Panic"
                ELSE "Ok"
        masked_inputs == [k \in 0..(nin - 1) |->
                            LET sh == input_mask_shares[k]
                            IN  [index |-> sh.index,
                                 bit |-> (state.masks[sh.index].bit.bit # sh.bit) # input[k]]]
    IN  IF VecLen(upstream_lhs_bits) < n \/ VecLen(upstream_rhs_bits) < n THEN Fail("Panic")
        ELSE IF msg2.ty # "TablesAndShares" THEN Fail("BincodeError")
        ELSE IF ands # VecLen(tables) THEN Fail("UnexpectedGarbledTableShare")
        ELSE IF FirstFailure(VecLen(tables), table_outcome) # "Ok"
        THEN Fail(FirstFailure(VecLen(tables), table_outcome))
        ELSE IF circuit.eval_inputs > VecLen(input) THEN Fail("InsufficientInput")
        ELSE IF FirstFailure(nin, share_outcome) # "Ok"
        THEN Fail(FirstFailure(nin, share_outcome))
        ELSE Ok([delta |-> state.delta,
                 pending_input |-> circuit.eval_inputs + circuit.contrib_inputs,
                 masks |-> state.masks,
                 wires |-> wires],
                [ty |-> "SharesAndInputs",
                 shares |-> MaskShares(circuit, state.masks, "InContrib"),
                 inputs |-> masked_inputs])

\* InputProcContrib::run
InputProcContrib_run(self, msg, circuit, input) ==
    IF msg.ty # "SharesAndInputs" THEN Fail("BincodeError")
    ELSE
    LET shares == msg.shares
        inputs == msg.inputs
        ngates == VecLen(circuit.gates)
        ns == Min(VecLen(shares), VecLen(input))
        ni == VecLen(inputs)
        share_outcome(k) ==
            IF shares[k].index >= ngates THEN "Panic"
            ELSE IF circuit.gates[shares[k].index].t # "InContrib" THEN "UnexpectedMessageType"
            ELSE "Ok"
        input_outcome(k) ==
            IF inputs[k].index >= ngates THEN "Panic"
            ELSE IF circuit.gates[inputs[k].index].t # "InEval" THEN "UnexpectedMessageType"
            ELSE IF self.pending_from_b = 0 THEN "UnexpectedMessageType"
            ELSE "Ok"
        mac_checks_success ==
            /\ self.mac_checks_success
            /\ \A k \in 0..(ns - 1) :
                  PartialBitShare_verify(shares[k], self.masks[shares[k].index].bit.key,
                                         self.delta)
        evaluation_inputs ==
            [k \in 0..(ns + ni - 1) |->
               IF k < ns
               THEN LET mask == self.masks[shares[k].index]
                        my_input_masked == (input[k] # shares[k].bit) # mask.bit.bit
                    IN  [index |-> shares[k].index,
                         label |-> WireMask_label(mask, my_input_masked, self.delta),
                         bit |-> my_input_masked]
               ELSE LET in == inputs[k - ns]
                    IN  [index |-> in.index,
                         label |-> WireMask_label(self.masks[in.index], in.bit, self.delta),
                         bit |-> in.bit]]
        mask_shares ==
            [j \in DOMAIN circuit.output_gates |->
               LET index == circuit.output_gates[j]
               IN  [index |-> index,
                    bit |-> self.masks[index].bit.bit,
                    mac |-> self.masks[index].bit.mac]]
    IN  IF FirstFailure(ns, share_outcome) # "Ok" THEN Fail(FirstFailure(ns, share_outcome))
        ELSE IF FirstFailure(ni, input_outcome) # "Ok"
        THEN Fail(FirstFailure(ni, input_outcome))
        ELSE IF ~mac_checks_success THEN Fail("MacError")
        ELSE Ok([step |-> "Done"],
                [ty |-> "InputsAndShares", inputs |-> evaluation_inputs, shares |-> mask_shares])

\* InputProcEval::run, the loop that stores the received labels: entry k onwards
RECURSIVE LoadInputs(_, _, _, _, _)
LoadInputs(circuit, inputs, k, wires, pending_input) ==
    IF k >= VecLen(inputs) THEN [err |-> "Ok", wires |-> wires, pending_input |-> pending_input]
    ELSE IF inputs[k].index >= VecLen(circuit.gates)
    THEN [err |-> "Panic", wires |-> wires, pending_input |-> pending_input]
    ELSE IF circuit.gates[inputs[k].index].t \notin {"InEval", "InContrib"}
    THEN [err |-> "UnexpectedMessageType", wires |-> wires, pending_input |-> pending_input]
    ELSE IF pending_input = 0
    THEN [err |-> "UnexpectedMessageType", wires |-> wires, pending_input |-> pending_input]
    ELSE LoadInputs(circuit, inputs, k + 1,
                    [wires EXCEPT ![inputs[k].index].label = inputs[k].label,
                                  ![inputs[k].index].masked_value = inputs[k].bit],
                    pending_input - 1)

\* InputProcEval::run, the evaluation loop: gate index onwards
RECURSIVE EvalGates(_, _, _, _, _)
EvalGates(circuit, delta, index, wires, mac_checks_success) ==
    IF index >= VecLen(circuit.gates)
    THEN [wires |-> wires, mac_checks_success |-> mac_checks_success]
    ELSE
    LET gate == circuit.gates[index]
    IN  IF gate.t = "Xor"
        THEN EvalGates(circuit, delta, index + 1,
                 [wires EXCEPT ![index].masked_value =
                                   wires[gate.a].masked_value # wires[gate.b].masked_value,
                               ![index].label = Xor(wires[gate.a].label, wires[gate.b].label)],
                 mac_checks_success)
        ELSE IF gate.t = "Not"
        THEN EvalGates(circuit, delta, index + 1,
                 [wires EXCEPT ![index].masked_value = ~wires[gate.a].masked_value,
                               ![index].label = wires[gate.a].label],
                 mac_checks_success)
        ELSE IF gate.t = "And"
        THEN LET lhs == wires[gate.a]
                 rhs == wires[gate.b]
                 row == 2 * B2N(lhs.masked_value) + B2N(rhs.masked_value)
                 result == BitShare_xor(wires[index].other_and_table[row],
                                        garbling_hash_new(lhs.label, rhs.label, index, row))
                 mine == wires[index].my_and_table[row]
             IN  EvalGates(circuit, delta, index + 1,
                     [wires EXCEPT ![index].masked_value = (mine.bit # result.bit),
                                   ![index].label = Xor(result.key, mine.mac)],
                     mac_checks_success /\ PartialBitShare_verify(result, mine.key, delta))
        ELSE EvalGates(circuit, delta, index + 1, wires, mac_checks_success)

\* InputProcEval::run
InputProcEval_run(self, msg, circuit) ==
    IF msg.ty # "InputsAndShares" THEN [err |-> "BincodeError", output |-> EmptyVec]
    ELSE
    LET share_ok(shares, k) ==
            PartialBitShare_verify(shares[k], self.masks[shares[k].index].bit.key, self.delta)
        evaluated(shares, ev) ==
            IF ~ev.mac_checks_success THEN [err |-> "MacError", output |-> EmptyVec]
            ELSE IF VecLen(circuit.output_gates) # VecLen(shares)
            THEN [err |-> "UnexpectedMessageType", output |-> EmptyVec]
            ELSE IF \E k \in DOMAIN shares : shares[k].index >= VecLen(circuit.gates)
            THEN [err |-> "Panic", output |-> EmptyVec]
            ELSE IF \E k \in DOMAIN shares : ~share_ok(shares, k)
            THEN [err |-> "MacError", output |-> EmptyVec]
            ELSE [err |-> "Ok",
                  output |-> [k \in DOMAIN shares |->
                                (ev.wires[shares[k].index].masked_value # shares[k].bit)
                                    # self.masks[shares[k].index].bit.bit]]
        inputs_loaded(shares, loaded) ==
            IF loaded.err # "Ok" THEN [err |-> loaded.err, output |-> EmptyVec]
            ELSE IF loaded.pending_input # 0 THEN [err |-> "Panic", output |-> EmptyVec]
            ELSE evaluated(shares, EvalGates(circuit, self.delta, 0, loaded.wires, TRUE))
    IN  inputs_loaded(msg.shares,
                      LoadInputs(circuit, msg.inputs, 0, self.wires, self.pending_input))

(***************************************************************************)
(* The two state machines (states.rs Contributor, Evaluator)               *)
(***************************************************************************)

\* a party: its step, the state the step holds, its circuit and its input
Party(step, st, circuit, input) ==
    [step |-> step, st |-> st, circuit |-> circuit, input |-> input]

\* the result of a step built from two protocol functions, the second of
\* which runs on the state the first returned
Chain(r1, r2) ==
    IF r1.err # "Ok" THEN r1
    ELSE IF r2.err # "Ok" THEN r2
    ELSE Ok(r2.st, PairMsg(r1.msg, r2.msg))

\* deserialize::<(Msg, Msg)>
IsPair(msg) == msg.ty = "MsgPair"

\* OtAndsState2 built from OtAndsState1 and the AND shares
OtAndsState2(state, and_shares) ==
    [rng |-> state.rng,
     delta |-> state.delta,
     coin |-> state.coin,
     and_triples |-> state.and_triples,
     wire_abits |-> state.wire_abits,
     r_and_rand_key |-> state.r_and_rand_key,
     r_and_rand_hash |-> state.r_and_rand_hash,
     r_prime |-> state.r_prime,
     and_shares |-> and_shares]

\* Contributor::steps, Evaluator::steps
steps == 7

\* Advance that hands the message on without leaving the current step
Advance_stuck(self, next, r) ==
    IF r.err # "Ok" THEN Fail(r.err)
    ELSE Ok(Party(self.step, r.st, self.circuit, self.input), r.msg)

\* a step result turned into the result of Contributor::run / Evaluator::run
Advance(self, next, r) ==
    IF r.err # "Ok" THEN Fail(r.err)
    ELSE Ok(Party(next, r.st, self.circuit, self.input), r.msg)

\* a run call in state Done that hands the state back with an empty message
Ended_idle(self) == Ok(self, [ty |-> "Empty"])

\* Contributor::run, Evaluator::run in state Done
Ended(self) == Fail("ProtocolEnded")

\* Contributor::new (ContribStep1::init)
Contributor_new(circuit, input, seed) ==
    LET started(r) ==
            IF r.err # "Ok" THEN Fail(r.err)
            ELSE Ok(Party("Step1", r.st, circuit, input), r.msg)
        seeded(rng) == started(init_ot1(RngU128(rng, 0), RngAdvance(rng, 1), circuit))
        validated(v) == IF v # "Ok" THEN Fail(v) ELSE seeded(RngFromSeed(seed))
    IN  validated(validate_contributor_input(circuit, input))

\* ContribStep2::run
ContribStep2_run(state, msg) ==
    IF msg.ty # "AndHashes" THEN Fail("BincodeError")
    ELSE LET and_shares == compute_and_shares(state, msg.v, "Contributor")
         IN  IF and_shares.err # "Ok" THEN Fail(and_shares.err)
             ELSE Ok(OtAndsState2(state, state.and_shares),
                     [ty |-> "MacVec", v |-> and_shares.v])

\* Contributor::run
Contributor_run(self, msg) ==
    LET step1(r) == Chain(r, init_ot3(r.st, msg.m2))
        step1a(r) == Chain(r, ot_ands1(r.st, msg.m2, self.circuit))
        step3(r) == Chain(r, ot_ands4(r.st, msg.m2))
        step4(r) == Chain(r, ot_ands6(r.st, msg.m2, self.circuit))
        step5(r) == Chain(r, ot_ands8_contrib(r.st, msg.m2, self.circuit, self.input))
    IN  CASE self.step = "Step1" ->
               IF ~IsPair(msg) THEN Fail("BincodeError")
               ELSE Advance(self, "Step1a", step1(init_ot2(self.st, msg.m1)))
          [] self.step = "Step1a" ->
               IF ~IsPair(msg) THEN Fail("BincodeError")
               ELSE Advance(self, "Step2", step1a(init_ot4(self.st, msg.m1)))
          [] self.step = "Step2" -> Advance(self, "Step3", ContribStep2_run(self.st, msg))
          [] self.step = "Step3" ->
               IF ~IsPair(msg) THEN Fail("BincodeError")
               ELSE Advance(self, "Step4", step3(ot_ands3_update_z2_contrib(self.st, msg.m1)))
          [] self.step = "Step4" ->
               IF ~IsPair(msg) THEN Fail("BincodeError")
               ELSE Advance(self, "Step5", step4(ot_ands5(self.st, msg.m1)))
          [] self.step = "Step5" ->
               IF ~IsPair(msg) THEN Fail("BincodeError")
               ELSE Advance(self, "Step6", step5(finish(self.st, msg.m1, self.circuit)))
          [] self.step = "Step6" ->
               Advance(self, "Done",
                       InputProcContrib_run(self.st, msg, self.circuit, self.input))
          [] OTHER -> Ended(self)

\* Evaluator::new (EvalStep1::init)
Evaluator_new(circuit, input, seed) ==
    LET validated(v) ==
            IF v # "Ok" THEN Fail(v)
            ELSE Ok(Party("Step1", [rng |-> RngFromSeed(seed)], circuit, input), NoMsg)
    IN  validated(validate_evaluator_input(circuit, input))

\* EvalStep1::run
EvalStep1_run(state, msg, circuit) ==
    LET second(r1) == Chain(r1, init_ot2(r1.st, msg))
    IN  second(init_ot1(RngU128(state.rng, 0), RngAdvance(state.rng, 1), circuit))

\* EvalStep2a::run
EvalStep2a_run(state, msg, circuit) ==
    IF ~IsPair(msg) THEN Fail("BincodeError")
    ELSE
    LET shared(r1, and_shares) ==
            IF and_shares.err # "Ok" THEN Fail(and_shares.err)
            ELSE Ok(OtAndsState2(r1.st, and_shares.v), r1.msg)
        second(r1) ==
            IF r1.err # "Ok" THEN r1
            ELSE IF msg.m2.ty # "AndHashes" THEN Fail("BincodeError")
            ELSE shared(r1, compute_and_shares(r1.st, msg.m2.v, "Evaluator"))
    IN  second(ot_ands1(state, msg.m1, circuit))

\* the empty message vec![]
EmptyMsg == [ty |-> "Empty"]

\* the result of InputProcEval::run as the result of a step
OutputStep(r) == IF r.err # "Ok" THEN Fail(r.err) ELSE Ok([output |-> r.output], EmptyMsg)

\* Evaluator::run
Evaluator_run(self, msg) ==
    LET step2(r) == Chain(r, init_ot4(r.st, msg.m2))
        step4(r) == Chain(r, ot_ands5(r.st, msg.m2))
        step5(r) == Chain(r, finish(r.st, msg.m2, self.circuit))
    IN  CASE self.step = "Step1" ->
               Advance(self, "Step2", EvalStep1_run(self.st, msg, self.circuit))
          [] self.step = "Step2" ->
               IF ~IsPair(msg) THEN Fail("BincodeError")
               ELSE Advance(self, "Step2a", step2(init_ot3(self.st, msg.m1)))
          [] self.step = "Step2a" ->
               Advance(self, "Step3", EvalStep2a_run(self.st, msg, self.circuit))
          [] self.step = "Step3" ->
               Advance(self, "Step4", ot_ands3_update_z2_eval(self.st, msg))
          [] self.step = "Step4" ->
               IF ~IsPair(msg) THEN Fail("BincodeError")
               ELSE Advance(self, "Step5", step4(ot_ands4(self.st, msg.m1)))
          [] self.step = "Step5" ->
               IF ~IsPair(msg) THEN Fail("BincodeError")
               ELSE Advance(self, "Step6", step5(ot_ands6(self.st, msg.m1, self.circuit)))
          [] self.step = "Step6" ->
               IF ~IsPair(msg) THEN Fail("BincodeError")
               ELSE Advance(self, "Step8",
                            ot_ands8_eval(self.st, msg.m1, msg.m2, self.circuit, self.input))
          [] self.step = "Step8" ->
               Advance(self, "Done",
                       OutputStep(InputProcEval_run(self.st, msg, self.circuit)))
          [] OTHER -> Ended(self)

\* Evaluator::output
Evaluator_output(self, msg) ==
    IF self.step = "Step8" THEN InputProcEval_run(self.st, msg, self.circuit)
    ELSE [err |-> "ProtocolStillInProgress", output |-> EmptyVec]

(***************************************************************************)
(* Message queue (msg_queue.rs)                                            *)
(***************************************************************************)

NoResult == [err |-> "None", output |-> EmptyVec]

\* Option<T>: None is the empty sequence, Some(v) the sequence holding v
None == <<>>

Some(v) == <<v>>

\* the width of MessageId (u32), scaled down
IdBits == 4

IdMod == 2 ^ IdBits

\* MsgQueue::new
MsgQueue_new == [send_q |-> <<>>, msg_counter |-> 0]

\* MsgQueue::send
MsgQueue_send(q, msg) ==
    [send_q |-> Append(q.send_q, msg), msg_counter |-> q.msg_counter + 1]

RECURSIVE flush_loop_exclusive(_, _, _)
\* the while loop with the test offset < last_durably_received_offset
flush_loop_exclusive(send_q, offset, last_durably_received_offset) ==
    IF offset < last_durably_received_offset /\ send_q # <<>>
    THEN flush_loop_exclusive(Tail(send_q), offset + 1, last_durably_received_offset)
    ELSE [send_q |-> send_q, offset |-> offset]

RECURSIVE flush_loop(_, _, _)
\* the while loop of MsgQueue::flush_queue
flush_loop(send_q, offset, last_durably_received_offset) ==
    IF offset <= last_durably_received_offset /\ send_q # <<>>
    THEN flush_loop(Tail(send_q), offset + 1, last_durably_received_offset)
    ELSE [send_q |-> send_q, offset |-> offset]

\* flush_queue that removes nothing
flush_queue_keep(q, last_durably_received_offset) == [queue |-> q, removed |-> 0]

\* flush_queue that takes the first queued message to have id 0
flush_queue_from_zero(q, last_durably_received_offset) ==
    LET r == flush_loop(q.send_q, 0, last_durably_received_offset)
    IN  [queue |-> [send_q |-> r.send_q, msg_counter |-> q.msg_counter],
         removed |-> r.offset]

\* MsgQueue::flush_queue: the queue afterwards and the number of elements removed
flush_queue(q, last_durably_received_offset) ==
    LET first_offset == q.msg_counter - Len(q.send_q)
        r == flush_loop(q.send_q, first_offset, last_durably_received_offset)
    IN  [queue |-> [send_q |-> r.send_q, msg_counter |-> q.msg_counter],
         removed |-> r.offset - first_offset]

\* msgs_iter that numbers the queued messages from 0
msgs_iter_from_zero(q) ==
    [i \in 1..Len(q.send_q) |-> <<q.send_q[i], i - 1>>]

\* MsgQueue::msgs_iter (MsgIter::next), collected: pairs (message, id)
msgs_iter(q) ==
    LET message_id == (q.msg_counter - Len(q.send_q)) % IdMod
    IN  [i \in 1..Len(q.send_q) |-> <<q.send_q[i], message_id + i - 1>>]

\* messages.last().map(|v| v.1)
LastId(messages) ==
    IF messages = <<>> THEN None ELSE Some(messages[Len(messages)][2])

(***************************************************************************)
(* HTTP server (tandem_http_server state.rs, engine.rs)                    *)
(***************************************************************************)

\* EngineRef::new
EngineRef_new(seed, program, input) ==
    LET built(r) ==
            IF r.err # "Ok" THEN [err |-> "Engine"]
            ELSE [err |-> "Ok",
                  engine |-> [last_durably_received_client_event_offset |-> None,
                              tandem |-> Some(r.st),
                              steps_remaining |-> steps,
                              context |-> MsgQueue_send(MsgQueue_new, r.msg)]]
    IN  built(Contributor_new(program, input, seed))

\* the outcome of one EngineRef::process_message call
Processed(err, engine, ran) == [err |-> err, engine |-> engine, ran |-> ran]

\* the offset test of process_message, offset - 1 wrapped (no overflow checks)
OffsetAccepted(last, offset) ==
    \/ last = None /\ offset = 0
    \/ last = Some((offset - 1) % IdMod)

\* the offset test of process_message evaluates offset - 1 on offset = 0:
\* the right operand of || is evaluated whenever the left one is false
SubtractsFromZero(last, offset) ==
    /\ ~(last = None /\ offset = 0)
    /\ offset = 0

\* EngineRef::process_message; a build with overflow checks panics on 0 - 1
process_message(self, msg, offset, overflow_checks) ==
    LET last == self.last_durably_received_client_event_offset
        run(accepted, r) ==
            IF r.err = "Panic" THEN Processed("Panic", accepted, TRUE)
            ELSE IF r.err # "Ok" THEN Processed("Engine", accepted, TRUE)
            ELSE Processed("Ok",
                           [accepted EXCEPT !.tandem = Some(r.st),
                                            !.context = MsgQueue_send(self.context, r.msg)],
                           TRUE)
        take(accepted) ==
            IF self.tandem = None THEN Processed("Ok", accepted, FALSE)
            ELSE run([accepted EXCEPT !.tandem = None], Contributor_run(self.tandem[1], msg))
    IN  IF ~(last = None /\ offset = 0) /\ offset = 0 /\ overflow_checks
        THEN Processed("Panic", self, FALSE)
        ELSE IF ~OffsetAccepted(last, offset)
        THEN Processed("UnexpectedMessageId", self, FALSE)
        ELSE take([self EXCEPT !.last_durably_received_client_event_offset = Some(offset)])

\* EngineRef::is_done
is_done(self) == self.steps_remaining = 0

\* the record kept of one process_message call
Call(engine, offset, r) ==
    [offset |-> offset,
     last_before |-> engine.last_durably_received_client_event_offset,
     last_after |-> r.engine.last_durably_received_client_event_offset,
     failed_before |-> engine.tandem = None,
     err |-> r.err,
     ran |-> r.ran,
     unchanged |-> r.engine = engine,
     queued |-> r.engine.context.msg_counter - engine.context.msg_counter]

RECURSIVE process_messages(_, _, _, _)
\* dialog: for (msg, offset) in messages { engine.process_message(&msg, offset)?; }
process_messages(engine, messages, overflow_checks, calls) ==
    IF messages = <<>> THEN [err |-> "Ok", engine |-> engine, calls |-> calls]
    ELSE LET next(r, log) ==
                 IF r.err # "Ok" THEN [err |-> r.err, engine |-> r.engine, calls |-> log]
                 ELSE process_messages(r.engine, Tail(messages), overflow_checks, log)
             called(offset, r) == next(r, Append(calls, Call(engine, offset, r)))
         IN  called(messages[1][2],
                    process_message(engine, messages[1][1], messages[1][2], overflow_checks))

\* a dialog request body: (last_durably_received_offset, messages)
Body(last_durably_received_offset, messages) ==
    [ty |-> "Dialog", last_durably_received_offset |-> last_durably_received_offset,
     messages |-> messages]

\* a body that does not deserialize
GarbageBody == [ty |-> "Garbage"]

ErrResponse(e) == [status |-> "Err", error |-> e]

OkResponse(msgs, message_id) == [status |-> "Ok", msgs |-> msgs, message_id |-> message_id]

\* a registry entry: Arc<Mutex<EngineRef>>
Locked(engine, poisoned) == [engine |-> engine, poisoned |-> poisoned]

\* EngineRegistry::drop_engine
drop_engine(registry, engine_id) ==
    [id \in DOMAIN registry \ {engine_id} |-> registry[id]]

\* insert_engine into a map emptied first
insert_engine_alone(registry, engine_id, entry) ==
    [id \in {engine_id} |-> entry]

\* EngineRegistry::insert_engine (on a vacant entry)
insert_engine(registry, engine_id, entry) ==
    [id \in DOMAIN registry \cup {engine_id} |->
        IF id = engine_id THEN entry ELSE registry[id]]

\* the dialog handler: the registry afterwards, the response and the calls made
dialog(registry, engine_id, body, overflow_checks) ==
    LET flushed(engine) ==
            IF body.last_durably_received_offset # None
            THEN [engine EXCEPT !.context =
                      flush_queue(engine.context, body.last_durably_received_offset[1]).queue]
            ELSE engine
        kept(engine, poisoned) == [registry EXCEPT ![engine_id] = Locked(engine, poisoned)]
        processed(p) ==
            IF p.err = "Panic"
            THEN [registry |-> kept(p.engine, TRUE), resp |-> ErrResponse("Panic"),
                  calls |-> p.calls]
            ELSE IF p.err # "Ok"
            THEN [registry |-> kept(p.engine, FALSE), resp |-> ErrResponse(p.err),
                  calls |-> p.calls]
            ELSE [registry |-> IF is_done(p.engine) THEN drop_engine(registry, engine_id)
                               ELSE kept(p.engine, FALSE),
                  resp |-> OkResponse(msgs_iter(p.engine.context),
                                      p.engine.last_durably_received_client_event_offset),
                  calls |-> p.calls]
    IN  IF body.ty # "Dialog"
        THEN [registry |-> registry, resp |-> ErrResponse("Bincode"), calls |-> <<>>]
        ELSE IF engine_id \notin DOMAIN registry
        THEN [registry |-> registry, resp |-> ErrResponse("NoSuchEngineId"), calls |-> <<>>]
        ELSE IF registry[engine_id].poisoned
        THEN [registry |-> registry, resp |-> ErrResponse("Panic"), calls |-> <<>>]
        ELSE processed(process_messages(flushed(registry[engine_id].engine), body.messages,
                                        overflow_checks, <<>>))

\* the delete_session handler
delete_session(registry, engine_id) ==
    IF engine_id \in DOMAIN registry
    THEN [registry |-> drop_engine(registry, engine_id), resp |-> [status |-> "Ok"]]
    ELSE [registry |-> registry, resp |-> ErrResponse("NoSuchEngineId")]

(***************************************************************************)
(* HTTP client (tandem_http_client lib.rs)                                 *)
(***************************************************************************)

MAX_RETRIES == 10

\* TandemSession::evaluate returns
Returned(cl, err, output) ==
    [cl EXCEPT !.pc = "done", !.result = [err |-> err, output |-> output]]

\* the offset test of evaluate that lets every server offset pass
OffsetMismatch_never(last_durably_received_offset, server_offset) == FALSE

\* evaluate: *server_offset != last_durably_received_offset.map(|o| o + 1).unwrap_or(0)
OffsetMismatch(last_durably_received_offset, server_offset) ==
    server_offset #
        (IF last_durably_received_offset = None THEN 0
         ELSE (last_durably_received_offset[1] + 1) % IdMod)

RECURSIVE consume(_, _)
\* evaluate: for (msg, server_offset) in &upstream_msgs { ... }
consume(cl, upstream_msgs) ==
    IF upstream_msgs = <<>> THEN cl
    ELSE LET ran(seen, server_offset, r) ==
                 IF r.err # "Ok" THEN Returned(seen, r.err, EmptyVec)
                 ELSE consume([seen EXCEPT !.evaluator = r.st,
                                           !.steps_remaining = @ - 1,
                                           !.context = MsgQueue_send(@, r.msg),
                                           !.last_durably_received_offset =
                                               Some(server_offset)],
                              Tail(upstream_msgs))
             finished(seen, out) == Returned(seen, out.err, out.output)
             step(msg, server_offset, seen) ==
                 IF OffsetMismatch(cl.last_durably_received_offset, server_offset)
                 THEN Returned(cl, "MessageOffsetMismatch", EmptyVec)
                 ELSE IF cl.steps_remaining > 0
                 THEN ran(seen, server_offset, Evaluator_run(cl.evaluator, msg))
                 ELSE finished(seen, Evaluator_output(cl.evaluator, msg))
         IN  step(upstream_msgs[1][1], upstream_msgs[1][2],
                  [cl EXCEPT !.consumed = Append(@, upstream_msgs[1][2])])

\* evaluate: the body of the loop after self.dialog(..) returned Ok
evaluate_response(cl, upstream_msgs, server_commited_offset) ==
    LET flushed ==
            IF server_commited_offset # None
            THEN [cl EXCEPT !.context = flush_queue(@, server_commited_offset[1]).queue]
            ELSE cl
        again(after) ==
            IF after.pc = "done" THEN after ELSE [after EXCEPT !.pc = "send", !.errors = 0]
    IN  IF LastId(cl.messages) # server_commited_offset
        THEN Returned(cl, "MessageOffsetMismatch", EmptyVec)
        ELSE again(consume(flushed, upstream_msgs))

\* TandemSession::dialog: one more failed attempt
dialog_error(cl) ==
    IF cl.errors + 1 >= MAX_RETRIES
    THEN Returned([cl EXCEPT !.errors = @ + 1], "MaxRetriesExceeded", EmptyVec)
    ELSE [cl EXCEPT !.pc = "send", !.errors = @ + 1]

\* TandemSession::evaluate up to the loop
Session_evaluate(circuit, input, seed) ==
    LET cl(e) == [pc |-> "send",
                  context |-> MsgQueue_new,
                  evaluator |-> e.st,
                  last_durably_received_offset |-> None,
                  steps_remaining |-> steps,
                  messages |-> <<>>,
                  errors |-> 0,
                  consumed |-> <<>>,
                  result |-> NoResult]
        started(e) == IF e.err # "Ok" THEN Returned(cl(e), e.err, EmptyVec) ELSE cl(e)
    IN  started(Evaluator_new(circuit, input, seed))

(***************************************************************************)
(* Inputs the runs are checked on                                          *)
(***************************************************************************)

\* circuits of up to MaxGates gates are enumerated exhaustively
MaxGates == 2

\* the number of RNG seeds tried per party
NumSeeds == 2

Seeds == 0..(NumSeeds - 1)

\* the gates that may stand at index i of a valid circuit
GateChoices(i) ==
    {InContrib, InEval}
        \cup {GXor(x, y) : x \in 0..(i - 1), y \in 0..(i - 1)}
        \cup {GAnd(x, y) : x \in 0..(i - 1), y \in 0..(i - 1)}
        \cup {GNot(x) : x \in 0..(i - 1)}

\* all gate vectors of length n without forward references
GateVecs(n) ==
    {f \in [0..(n - 1) -> GateChoices(n - 1)] : \A i \in 0..(n - 1) : f[i] \in GateChoices(i)}

\* every gate is an output gate, so that every wire is observed
AllOutputs(gates) == [j \in DOMAIN gates |-> j]

SmallCircuits ==
    {Circuit_new(g, AllOutputs(g)) : g \in UNION {GateVecs(n) : n \in 1..MaxGates}}

\* the program (a ^ b, a & b) of the HTTP tests
XorAndCircuit ==
    Circuit_new(ToVec(<<InContrib, InEval, GXor(0, 1), GAnd(0, 1)>>), ToVec(<<2, 3>>))

XorCircuit == Circuit_new(ToVec(<<InContrib, InEval, GXor(0, 1)>>), ToVec(<<2>>))

NotAndCircuit ==
    Circuit_new(ToVec(<<InContrib, InEval, GNot(0), GAnd(2, 1), GXor(3, 0)>>),
                ToVec(<<4, 2>>))

TwoAndCircuit ==
    Circuit_new(ToVec(<<InContrib, InEval, InContrib, GAnd(0, 1), GAnd(3, 2)>>),
                ToVec(<<4>>))

NamedCircuits == {XorAndCircuit, XorCircuit, NotAndCircuit, TwoAndCircuit}

SimCircuits == SmallCircuits \cup NamedCircuits

BoolVecs(n) == [0..(n - 1) -> BOOLEAN]

(***************************************************************************)
(* State                                                                   *)
(***************************************************************************)

VARIABLES
    simArgs,          \* simulate: circuit, input_contributor, input_evaluator, seeds
    simPc,            \* simulate: the position in the function
    eval,             \* simulate: the Evaluator
    contrib,          \* simulate: the Contributor
    msg_for_eval,     \* simulate: the message the evaluator reads next
    msg_for_contrib,  \* simulate: the message the contributor reads next
    simLoops,         \* simulate: completed iterations of the loop
    simResult,        \* simulate: the returned value, once returned
    evalTrace,        \* history: the states the Evaluator has been in
    contribTrace,     \* history: the states the Contributor has been in
    tampered,         \* history: the alteration made to a message in flight, if any
    apiCall,          \* history: the last run or output call made outside simulate
    transcript,       \* history: the messages of simulate, in the order they were made
    httpArgs,         \* HTTP: circuit, inputs, seeds and the build of the server
    registry,         \* server: EngineRegistry, engine id -> Mutex<EngineRef>
    client,           \* client: the locals of TandemSession::evaluate
    request,          \* the dialog request in flight, if any
    response,         \* the response in flight, if any
    calls,            \* history: the process_message calls of the last request handled
    served,           \* history: the offsets the contributor has been run on
    handled,          \* history: the last response the client handled, and from where
    reqCount,         \* history: dialog requests sent by the client
    faults,           \* history: requests and responses lost or duplicated
    rogues,           \* history: requests and responses not made by client or server
    queue,            \* a MsgQueue under arbitrary calls
    sent,             \* history: every message sent on queue, in order
    read,             \* history: what msgs_iter returned, if nothing was called since
    flushed,          \* history: the last two flush_queue calls since the last send
    mutex,            \* server: the dialog handler holding the Mutex of the engine, if any
    threads           \* server: the dialog handlers running side by side

simVars ==
    <<simArgs, simPc, eval, contrib, msg_for_eval, msg_for_contrib, simLoops, simResult,
      evalTrace, contribTrace, tampered, apiCall, transcript>>

httpVars ==
    <<httpArgs, registry, client, request, response, calls, served, handled, reqCount,
      faults, rogues>>

queueVars == <<queue, sent, read, flushed>>

lockVars == <<mutex, threads>>

NoParty == [step |-> "None"]

NoTamper == [kind |-> "none"]

NoCall == [op |-> "none"]

SimInitWith(circuits) ==
    /\ \E c \in circuits :
         \E a \in BoolVecs(c.contrib_inputs), b \in BoolVecs(c.eval_inputs) :
           \E sc \in Seeds, se \in Seeds :
             simArgs = [circuit |-> c, input_contributor |-> a, input_evaluator |-> b,
                        seed_contributor |-> sc, seed_evaluator |-> se]
    /\ simPc = "new"
    /\ eval = NoParty
    /\ contrib = NoParty
    /\ msg_for_eval = NoMsg
    /\ msg_for_contrib = NoMsg
    /\ simLoops = 0
    /\ simResult = NoResult
    /\ evalTrace = <<>>
    /\ contribTrace = <<>>
    /\ tampered = NoTamper
    /\ apiCall = NoCall
    /\ transcript = <<>>

\* the generators simulate hands to the roles, each from fresh entropy on
\* every call of simulate
SimRngs_entropy ==
    [evaluator |-> (simArgs.seed_evaluator + (IF apiCall = NoCall THEN 0 ELSE 1)) % SeedMod,
     contributor |-> (simArgs.seed_contributor + (IF apiCall = NoCall THEN 0 ELSE 1)) % SeedMod]

\* the generators simulate hands to the roles, for the seeds of this run
SimRngs ==
    [evaluator |-> simArgs.seed_evaluator, contributor |-> simArgs.seed_contributor]

\* simulate returns early with the error of a failed call
SimFail(err) ==
    /\ simPc' = "done"
    /\ simResult' = [err |-> err, output |-> EmptyVec]

\* simulate: Evaluator::new, Contributor::new
SimNew ==
    /\ simPc = "new"
    /\ \E e \in {Evaluator_new(simArgs.circuit, simArgs.input_evaluator,
                               SimRngs.evaluator)},
          c \in {Contributor_new(simArgs.circuit, simArgs.input_contributor,
                                 SimRngs.contributor)} :
           IF e.err # "Ok"
           THEN /\ SimFail(e.err)
                /\ UNCHANGED <<eval, contrib, msg_for_eval, evalTrace, contribTrace, transcript>>
           ELSE IF c.err # "Ok"
           THEN /\ SimFail(c.err)
                /\ eval' = e.st
                /\ evalTrace' = <<e.st.step>>
                /\ UNCHANGED <<contrib, msg_for_eval, contribTrace, transcript>>
           ELSE /\ eval' = e.st
                /\ contrib' = c.st
                /\ msg_for_eval' = c.msg
                /\ evalTrace' = <<e.st.step>>
                /\ contribTrace' = <<c.st.step>>
                /\ transcript' = <<c.msg>>
                /\ simPc' = IF steps > 0 THEN "eval_run" ELSE "output"
                /\ UNCHANGED simResult
    /\ UNCHANGED <<simArgs, msg_for_contrib, simLoops, tampered>>
    /\ UNCHANGED <<apiCall, httpVars, queueVars, lockVars>>

\* simulate: eval.run(&msg_for_eval)
SimEvalRun ==
    /\ simPc = "eval_run"
    /\ \E r \in {Evaluator_run(eval, msg_for_eval)} :
           IF r.err # "Ok"
           THEN /\ SimFail(r.err)
                /\ UNCHANGED <<eval, msg_for_contrib, evalTrace, transcript>>
           ELSE /\ eval' = r.st
                /\ msg_for_contrib' = r.msg
                /\ transcript' = Append(transcript, r.msg)
                /\ evalTrace' = Append(evalTrace, r.st.step)
                /\ simPc' = "contrib_run"
                /\ UNCHANGED simResult
    /\ UNCHANGED <<simArgs, contrib, msg_for_eval, simLoops, contribTrace, tampered>>
    /\ UNCHANGED <<apiCall, httpVars, queueVars, lockVars>>

\* simulate: contrib.run(&msg_for_contrib), the end of one iteration
SimContribRun ==
    /\ simPc = "contrib_run"
    /\ \E r \in {Contributor_run(contrib, msg_for_contrib)} :
           IF r.err # "Ok"
           THEN /\ SimFail(r.err)
                /\ UNCHANGED <<contrib, msg_for_eval, contribTrace, simLoops, transcript>>
           ELSE /\ contrib' = r.st
                /\ msg_for_eval' = r.msg
                /\ transcript' = Append(transcript, r.msg)
                /\ contribTrace' = Append(contribTrace, r.st.step)
                /\ simLoops' = simLoops + 1
                /\ simPc' = IF simLoops + 1 < steps THEN "eval_run" ELSE "output"
                /\ UNCHANGED simResult
    /\ UNCHANGED <<simArgs, eval, msg_for_contrib, evalTrace, tampered>>
    /\ UNCHANGED <<apiCall, httpVars, queueVars, lockVars>>

\* simulate: eval.output(&msg_for_eval)
SimOutput ==
    /\ simPc = "output"
    /\ simResult' = Evaluator_output(eval, msg_for_eval)
    /\ simPc' = "done"
    /\ UNCHANGED transcript
    /\ UNCHANGED <<simArgs, eval, contrib, msg_for_eval, msg_for_contrib, simLoops,
                   evalTrace, contribTrace, tampered>>
    /\ UNCHANGED <<apiCall, httpVars, queueVars, lockVars>>

(***************************************************************************)
(* Circuit::from_bristol_format                                            *)
(*                                                                         *)
(* A text is the sequence of its lines (split at '\n'), a line the         *)
(* sequence of its tokens (split at ' '), and a token a run of digits or   *)
(* another word.  A panic (unwrap on Err or None, index out of bounds,     *)
(* panic!) is the outcome "Panic".                                         *)
(***************************************************************************)

\* a token of digits, with the number it denotes
Num(n) == [k |-> "num", v |-> n, w |-> ""]

\* a token that is not a number
Word(w) == [k |-> "word", v |-> 0, w |-> w]

\* the outcome of from_bristol_format
Parsed(err, circuit) == [err |-> err, circuit |-> circuit]

\* an outcome without a circuit
NotParsed(err) == Parsed(err, Circuit_new(EmptyVec, EmptyVec))

\* line[i].parse::<u32>(): the number, or -1 where the index or the parse fails
ParseAt(line, i) ==
    IF i < Len(line) /\ line[i + 1].k = "num" /\ line[i + 1].v < U32Mod
    THEN line[i + 1].v ELSE -1

\* mapped_wires after the first loop over the gate lines: the identity on the
\* input wires, and the last gate line that names a wire as its output
MappedWires(gate_lines, inputs) ==
    LET outs == {ParseAt(gate_lines[j], 4) : j \in 1..Len(gate_lines)}
        last(w) == CHOOSE j \in 1..Len(gate_lines) :
                       /\ ParseAt(gate_lines[j], 4) = w
                       /\ \A h \in (j + 1)..Len(gate_lines) : ParseAt(gate_lines[h], 4) # w
    IN  [w \in (0..(inputs - 1)) \cup outs |->
            IF w \in outs THEN inputs + last(w) - 1 ELSE w]

\* the second loop on one gate line: a panic, the error, or the gate
GateOf(line, mapped) ==
    LET a == ParseAt(line, 2)
        b == ParseAt(line, 3)
        op == line[Len(line)]
    IN  IF a = -1 \/ b = -1 THEN [err |-> "Panic", gate |-> InContrib]
        ELSE IF a \notin DOMAIN mapped \/ b \notin DOMAIN mapped
        THEN [err |-> "Panic", gate |-> InContrib]
        ELSE IF op = Word("XOR") THEN [err |-> "Ok", gate |-> GXor(mapped[a], mapped[b])]
        ELSE IF op = Word("AND") THEN [err |-> "Ok", gate |-> GAnd(mapped[a], mapped[b])]
        ELSE IF op = Word("INV") THEN [err |-> "Ok", gate |-> GNot(mapped[a])]
        ELSE [err |-> "InvalidCircuit", gate |-> InContrib]

\* the end of from_bristol_format: the output gates and Circuit::new;
\* num_wires - output_bits wraps around in a build without overflow checks
WithOutputs(gates, output_bits, overflow_checks) ==
    LET num_wires == AsU32(VecLen(gates))
        first == (num_wires - output_bits) % U32Mod
    IN  IF output_bits > num_wires /\ overflow_checks THEN NotParsed("Panic")
        ELSE Parsed("Ok", Circuit_new(gates,
                 [i \in 0..(num_wires - first - 1) |-> first + i]))

\* Circuit::from_bristol_format
from_bristol_format(text, overflow_checks) ==
    LET lines == SelectSeq(text, LAMBDA l : l # <<>>)
        gate_lines == SubSeq(lines, 4, Len(lines))
        gates_from(contrib_bits, eval_bits, output_bits) ==
            LET inputs == contrib_bits + eval_bits
                mapped == MappedWires(gate_lines, inputs)
                made == [j \in 1..Len(gate_lines) |-> GateOf(gate_lines[j], mapped)]
                bad == {j \in 1..Len(gate_lines) : made[j].err # "Ok"}
                first_bad == CHOOSE j \in bad : \A h \in bad : j <= h
                gates == [i \in 0..(inputs + Len(gate_lines) - 1) |->
                             IF i < contrib_bits THEN InContrib
                             ELSE IF i < inputs THEN InEval
                             ELSE made[i - inputs + 1].gate]
            IN  IF \E j \in 1..Len(gate_lines) : ParseAt(gate_lines[j], 4) = -1
                THEN NotParsed("Panic")
                ELSE IF bad # {} THEN NotParsed(made[first_bad].err)
                ELSE WithOutputs(gates, output_bits, overflow_checks)
    IN  IF Len(lines) < 3 THEN NotParsed("Panic")
        ELSE IF ParseAt(lines[2], 1) = -1 \/ ParseAt(lines[2], 2) = -1
                  \/ ParseAt(lines[3], 1) = -1
        THEN NotParsed("Panic")
        ELSE gates_from(ParseAt(lines[2], 1), ParseAt(lines[2], 2), ParseAt(lines[3], 1))

\* the tokens tried for an input wire: defined wires, a wire of a later
\* line, a wire of no line, a number beyond u32 and a word
WireTokens == {Num(0), Num(2), Num(3), Num(7), Num(U32Mod), Word("x")}

\* the gate lines tried: two inputs, one input, and cut short
GateLines ==
    {<<Num(2), Num(1), a, b, o, op>> :
        a \in WireTokens, b \in {Num(1), Word("x")},
        o \in {Num(2), Num(3), Word("x")},
        op \in {Word("XOR"), Word("AND"), Word("INV"), Word("EQ")}}
      \cup {<<Num(1), Num(1), a, o, Word("INV")>> : a \in WireTokens, o \in {Num(2), Num(3)}}
      \cup {<<Num(2), Num(1), Num(0)>>}

\* the lines tried for the input widths and for the output width
InputLines ==
    {<<Num(2), Num(1), Num(1)>>, <<Num(2), Num(1)>>, <<Num(2), Word("x"), Num(1)>>,
     <<Num(2), Num(1), Num(U32Mod)>>}

OutputLines == {<<Num(1), Num(1)>>, <<Num(1)>>, <<Num(1), Word("x")>>, <<Num(1), Num(3)>>}

HeaderLine == <<Num(1), Num(3)>>

\* the texts tried: up to three lines, and texts of one or two gate lines
BristolTexts ==
    {<<>>, <<HeaderLine>>}
      \cup {<<HeaderLine, i>> : i \in InputLines}
      \cup {<<HeaderLine, i, o>> : i \in InputLines, o \in OutputLines}
      \cup {<<HeaderLine, i, o, <<Num(2), Num(1), Num(0), Num(1), Num(2), Word("XOR")>>>> :
                i \in InputLines, o \in OutputLines}
      \cup {<<HeaderLine, <<Num(2), Num(1), Num(1)>>, <<>>, <<Num(1), Num(1)>>, g>> :
                g \in GateLines}
      \cup {<<HeaderLine, <<Num(2), Num(1), Num(1)>>, <<Num(1), Num(1)>>, g, h>> :
                g \in GateLines, h \in GateLines}

\* a text to parse, and the build of the program
BristolStart ==
    /\ simArgs \in {[text |-> t, overflow_checks |-> oc] : t \in BristolTexts, oc \in BOOLEAN}
    /\ simPc = "from_bristol_format"
    /\ eval = NoParty
    /\ contrib = NoParty
    /\ msg_for_eval = NoMsg
    /\ msg_for_contrib = NoMsg
    /\ simLoops = 0
    /\ simResult = NoResult
    /\ evalTrace = <<>>
    /\ contribTrace = <<>>
    /\ tampered = NoTamper
    /\ apiCall = NoCall
    /\ transcript = <<>>

\* Circuit::from_bristol_format on the text
FromBristol ==
    /\ simPc = "from_bristol_format"
    /\ \E r \in {from_bristol_format(simArgs.text, simArgs.overflow_checks)} :
         apiCall' = [op |-> "from_bristol_format", err |-> r.err, circuit |-> r.circuit]
    /\ simPc' = "done"
    /\ UNCHANGED <<simArgs, eval, contrib, msg_for_eval, msg_for_contrib, simLoops,
                   simResult, evalTrace, contribTrace, tampered>>
    /\ UNCHANGED <<transcript, httpVars, queueVars, lockVars>>

(***************************************************************************)
(* simulate called twice on the same arguments and seeds                   *)
(***************************************************************************)

\* the circuits simulate is called twice on
RerunCircuits == {XorCircuit, XorAndCircuit, NotAndCircuit}

\* the record kept of the first call: its messages and what it returned
FirstRun == [op |-> "simulate", transcript |-> transcript, result |-> simResult]

\* simulate has returned: call it again on the same arguments and seeds
SimAgain ==
    /\ simPc = "done"
    /\ apiCall = NoCall
    /\ apiCall' = FirstRun
    /\ simPc' = "new"
    /\ eval' = NoParty
    /\ contrib' = NoParty
    /\ msg_for_eval' = NoMsg
    /\ msg_for_contrib' = NoMsg
    /\ simLoops' = 0
    /\ simResult' = NoResult
    /\ evalTrace' = <<>>
    /\ contribTrace' = <<>>
    /\ transcript' = <<>>
    /\ UNCHANGED <<simArgs, tampered>>
    /\ UNCHANGED <<httpVars, queueVars, lockVars>>

(***************************************************************************)
(* Circuit::validate on circuits of every kind                             *)
(***************************************************************************)

\* gates and outputs per circuit that are enumerated with operands of every kind
MaxAnyGates == 2

\* the gates with operands up to n: backward, self and forward references
AnyGateChoices(n) ==
    {InContrib, InEval}
        \cup UNION {{GXor(x, 0), GXor(x, x), GAnd(x, 0), GAnd(x, x), GNot(x)} : x \in 0..n}

\* output lists: none, one index, or index 0 and one more
AnyOutputs(n) ==
    {EmptyVec} \cup {ToVec(<<o>>) : o \in 0..n} \cup {ToVec(<<0, o>>) : o \in 0..n}

\* all circuits of up to MaxAnyGates gates, well-formed or not
AnyCircuits ==
    {Circuit_new(g, o) :
        g \in UNION {[0..(n - 1) -> AnyGateChoices(MaxAnyGates)] : n \in 0..MaxAnyGates},
        o \in AnyOutputs(MaxAnyGates)}

\* n gates: an input, ands AND gates on it, inputs, and the given last gate
WideGates(n, ands, last) ==
    [i \in 0..(n - 1) |->
        IF i = 0 THEN InContrib
        ELSE IF i = n - 1 THEN last
        ELSE IF i <= ands THEN GAnd(0, 0)
        ELSE InEval]

\* gate counts around MAX_GATES and around the number of values of a u32
WideSizes ==
    {MAX_GATES - 1, MAX_GATES, MAX_GATES + 1, U32Mod - 1, U32Mod, U32Mod + 1}

\* circuits of n gates, well-formed or not
WideCircuitsOf(n) ==
    {Circuit_new(WideGates(n, ands, last), o) :
        ands \in {0, MAX_AND_GATES - 1, MAX_AND_GATES, MAX_AND_GATES + 1},
        last \in {InEval, GAnd(0, 0), GNot(n - 2), GNot((n - 1) % U32Mod)},
        o \in {EmptyVec, ToVec(<<0>>), ToVec(<<(n - 1) % U32Mod>>), ToVec(<<n % U32Mod>>)}}

\* circuits at and beyond the size bounds
WideCircuits == UNION {WideCircuitsOf(n) : n \in WideSizes}

ValidateCircuits == AnyCircuits \cup WideCircuits

\* a circuit to validate, no role constructed
ValidateStart ==
    /\ simArgs \in {[circuit |-> c] : c \in ValidateCircuits}
    /\ simPc = "validate"
    /\ eval = NoParty
    /\ contrib = NoParty
    /\ msg_for_eval = NoMsg
    /\ msg_for_contrib = NoMsg
    /\ simLoops = 0
    /\ simResult = NoResult
    /\ evalTrace = <<>>
    /\ contribTrace = <<>>
    /\ tampered = NoTamper
    /\ apiCall = NoCall
    /\ transcript = <<>>

\* circuit.validate()
Validate ==
    /\ simPc = "validate"
    /\ simResult' = [err |-> validate(simArgs.circuit), output |-> EmptyVec]
    /\ simPc' = "done"
    /\ UNCHANGED <<simArgs, eval, contrib, msg_for_eval, msg_for_contrib, simLoops,
                   evalTrace, contribTrace, tampered, apiCall>>
    /\ UNCHANGED <<transcript, httpVars, queueVars, lockVars>>

(***************************************************************************)
(* Evaluator::new, Contributor::new and simulate on circuits and inputs of *)
(* every kind                                                              *)
(***************************************************************************)

\* one more than the largest difference between an input's length and the
\* number of input gates
MaxExcess == 2

NewGateChoices(n) ==
    {InContrib, InEval} \cup UNION {{GXor(x, x), GAnd(x, 0), GNot(x)} : x \in 0..n}

\* n gates: an input and a chain of NOT gates
NotChain(n) == [i \in 0..(n - 1) |-> IF i = 0 THEN InContrib ELSE GNot(i - 1)]

\* n gates: an input and AND gates on it
AndFan(n) == [i \in 0..(n - 1) |-> IF i = 0 THEN InEval ELSE GAnd(0, 0)]

\* well-formed circuits with one gate or one AND gate too many
OversizedCircuits ==
    {Circuit_new(NotChain(MAX_GATES + 1), ToVec(<<MAX_GATES>>)),
     Circuit_new(AndFan(MAX_AND_GATES + 2), ToVec(<<1>>))}

\* circuits of up to MaxAnyGates gates, well-formed or not, and oversized ones
NewCircuits ==
    {Circuit_new(g, o) :
        g \in UNION {[0..(n - 1) -> NewGateChoices(MaxAnyGates)] : n \in 0..MaxAnyGates},
        o \in {EmptyVec, ToVec(<<0>>), ToVec(<<MaxAnyGates>>)}}
      \cup OversizedCircuits

\* the input lengths tried for n input gates
NewLengths(n) == {k \in (n - MaxExcess + 1)..(n + MaxExcess - 1) : k >= 0}

FalseVec(n) == [i \in 0..(n - 1) |-> FALSE]

\* a circuit and two inputs, of the right lengths or not; no role constructed
NewStart ==
    /\ \E c \in NewCircuits :
         \E ka \in NewLengths(c.contrib_inputs), kb \in NewLengths(c.eval_inputs) :
           simArgs = [circuit |-> c, input_contributor |-> FalseVec(ka),
                      input_evaluator |-> FalseVec(kb),
                      seed_contributor |-> 0, seed_evaluator |-> NumSeeds - 1]
    /\ simPc = "new"
    /\ eval = NoParty
    /\ contrib = NoParty
    /\ msg_for_eval = NoMsg
    /\ msg_for_contrib = NoMsg
    /\ simLoops = 0
    /\ simResult = NoResult
    /\ evalTrace = <<>>
    /\ contribTrace = <<>>
    /\ tampered = NoTamper
    /\ apiCall = NoCall
    /\ transcript = <<>>

\* the record kept of a constructor call
NewCall(op, r) ==
    [op |-> op, step |-> "None", runs |-> 0, err |-> r.err,
     next |-> IF r.err = "Ok" THEN r.st.step ELSE "None",
     msg |-> IF r.err = "Ok" THEN r.msg ELSE NoMsg]

\* Evaluator::new alone
NewEvaluator ==
    /\ simPc = "new"
    /\ \E r \in {Evaluator_new(simArgs.circuit, simArgs.input_evaluator,
                               simArgs.seed_evaluator)} :
         /\ apiCall' = NewCall("new_eval", r)
         /\ eval' = IF r.err = "Ok" THEN r.st ELSE NoParty
    /\ simPc' = "done"
    /\ UNCHANGED <<simArgs, contrib, msg_for_eval, msg_for_contrib, simLoops, simResult,
                   evalTrace, contribTrace, tampered>>
    /\ UNCHANGED <<transcript, httpVars, queueVars, lockVars>>

\* Contributor::new alone
NewContributor ==
    /\ simPc = "new"
    /\ \E r \in {Contributor_new(simArgs.circuit, simArgs.input_contributor,
                                 simArgs.seed_contributor)} :
         /\ apiCall' = NewCall("new_contrib", r)
         /\ contrib' = IF r.err = "Ok" THEN r.st ELSE NoParty
         /\ msg_for_eval' = IF r.err = "Ok" THEN r.msg ELSE NoMsg
    /\ simPc' = "done"
    /\ UNCHANGED <<simArgs, eval, msg_for_contrib, simLoops, simResult, evalTrace,
                   contribTrace, tampered>>
    /\ UNCHANGED <<transcript, httpVars, queueVars, lockVars>>

(***************************************************************************)
(* bucket_size and the sizing of init_ot1 around the thresholds            *)
(***************************************************************************)

\* how far below and above a threshold the numbers of AND gates go
Margin == 20

\* the numbers of AND gates tried
AndCounts ==
    0..Margin
      \cup (BucketThreshold4 - Margin)..(BucketThreshold4 + Margin)
      \cup (BucketThreshold3 - Margin)..(BucketThreshold3 + Margin)

\* circuits by the counts Circuit::new caches (and_gates, eval_inputs,
\* contrib_inputs): all that bucket_size and the sizing of init_ot1 read
CountedCircuits ==
    {[and_gates |-> n, eval_inputs |-> i, contrib_inputs |-> i] : n \in AndCounts, i \in 1..2}

\* a circuit whose bucket size is to be computed
BucketStart ==
    /\ simArgs \in {[circuit |-> c] : c \in CountedCircuits}
    /\ simPc = "bucket_size"
    /\ eval = NoParty
    /\ contrib = NoParty
    /\ msg_for_eval = NoMsg
    /\ msg_for_contrib = NoMsg
    /\ simLoops = 0
    /\ simResult = NoResult
    /\ evalTrace = <<>>
    /\ contribTrace = <<>>
    /\ tampered = NoTamper
    /\ apiCall = NoCall
    /\ transcript = <<>>

\* bucket_size, and the block count init_ot1 derives from it
BucketSize ==
    /\ simPc = "bucket_size"
    /\ apiCall' = [op |-> "bucket_size", size |-> bucket_size(simArgs.circuit),
                   blocks |-> init_ot1_blocks(simArgs.circuit)]
    /\ simPc' = "done"
    /\ UNCHANGED <<simArgs, eval, contrib, msg_for_eval, msg_for_contrib, simLoops,
                   simResult, evalTrace, contribTrace, tampered>>
    /\ UNCHANGED <<transcript, httpVars, queueVars, lockVars>>

(***************************************************************************)
(* Circuit::blake3_hash: the bytes fed to the hasher                       *)
(***************************************************************************)

\* the longest run of input gates among the hashed circuits
MaxHashGates == 5

\* u32::to_be_bytes
to_be_bytes(x) ==
    <<(x \div (2 ^ 24)) % 256, (x \div (2 ^ 16)) % 256, (x \div (2 ^ 8)) % 256, x % 256>>

\* Gate::update_hash: the operands, then the type byte
update_hash(g) ==
    CASE g.t = "InContrib" -> <<0>>
      [] g.t = "InEval" -> <<1>>
      [] g.t = "Xor" -> to_be_bytes(g.a) \o to_be_bytes(g.b) \o <<2>>
      [] g.t = "And" -> to_be_bytes(g.a) \o to_be_bytes(g.b) \o <<3>>
      [] g.t = "Not" -> to_be_bytes(g.a) \o <<4>>

RECURSIVE gates_bytes(_, _)
\* the bytes of the first n gates
gates_bytes(gates, n) ==
    IF n = 0 THEN <<>> ELSE gates_bytes(gates, n - 1) \o update_hash(gates[n - 1])

RECURSIVE outputs_bytes(_, _)
\* the bytes of the first n output gates
outputs_bytes(output_gates, n) ==
    IF n = 0 THEN <<>>
    ELSE outputs_bytes(output_gates, n - 1) \o to_be_bytes(output_gates[n - 1])

\* all the bytes blake3_hash feeds to its hasher, in order
blake3_hash_input(c) ==
    gates_bytes(c.gates, VecLen(c.gates)) \o outputs_bytes(c.output_gates, VecLen(c.output_gates))

\* the hashed circuits: runs of InContrib gates, and up to MaxAnyGates gates of
\* every kind, with none, one or two output gates
HashCircuits ==
    {Circuit_new(g, o) :
        g \in {[i \in 0..(n - 1) |-> InContrib] : n \in 0..MaxHashGates}
              \cup UNION {[0..(n - 1) -> NewGateChoices(MaxAnyGates - 1)] :
                             n \in 0..MaxAnyGates},
        o \in {EmptyVec, ToVec(<<0>>), ToVec(<<1>>), ToVec(<<0, 0>>)}}

\* two circuits to hash
HashStart ==
    /\ \E c1 \in HashCircuits, c2 \in HashCircuits :
         simArgs = [circuit |-> c1, other |-> c2]
    /\ simPc = "hash"
    /\ eval = NoParty
    /\ contrib = NoParty
    /\ msg_for_eval = NoMsg
    /\ msg_for_contrib = NoMsg
    /\ simLoops = 0
    /\ simResult = NoResult
    /\ evalTrace = <<>>
    /\ contribTrace = <<>>
    /\ tampered = NoTamper
    /\ apiCall = NoCall
    /\ transcript = <<>>

\* blake3_hash of the two circuits
Blake3Hash ==
    /\ simPc = "hash"
    /\ apiCall' = [op |-> "blake3_hash", first |-> blake3_hash_input(simArgs.circuit),
                   second |-> blake3_hash_input(simArgs.other)]
    /\ simPc' = "done"
    /\ UNCHANGED <<simArgs, eval, contrib, msg_for_eval, msg_for_contrib, simLoops,
                   simResult, evalTrace, contribTrace, tampered>>
    /\ UNCHANGED <<transcript, httpVars, queueVars, lockVars>>

(***************************************************************************)
(* The two roles under a caller that goes on after steps() run calls and   *)
(* asks for the output at any time; each reply is handed to the peer       *)
(***************************************************************************)

\* the record kept of a call: the state of the role and the number of its
\* successful run calls before it, and what it returned
ApiCall(op, self, runs, r) ==
    [op |-> op, step |-> self.step, runs |-> runs, err |-> r.err,
     next |-> IF r.err = "Ok" THEN r.st.step ELSE "None",
     msg |-> IF r.err = "Ok" THEN r.msg ELSE NoMsg]

\* who is called next: the peer if it still exists, else the role itself
Turn(peer, peer_pc, self, self_pc) ==
    IF peer # NoParty THEN peer_pc ELSE IF self # NoParty THEN self_pc ELSE "done"

\* eval.run(&msg_for_eval): run takes self, a failed call leaves no Evaluator
ApiEvalRun ==
    /\ simPc = "eval_run"
    /\ eval # NoParty
    /\ \E r \in {Evaluator_run(eval, msg_for_eval)} :
         /\ apiCall' = ApiCall("run_eval", eval, Len(evalTrace) - 1, r)
         /\ eval' = IF r.err = "Ok" THEN r.st ELSE NoParty
         /\ msg_for_contrib' = IF r.err = "Ok" THEN r.msg ELSE msg_for_contrib
         /\ evalTrace' = IF r.err = "Ok" THEN Append(evalTrace, r.st.step) ELSE evalTrace
    /\ simPc' = Turn(contrib, "contrib_run", eval', "eval_run")
    /\ UNCHANGED <<simArgs, contrib, msg_for_eval, simLoops, simResult, contribTrace,
                   tampered>>
    /\ UNCHANGED <<transcript, httpVars, queueVars, lockVars>>

\* contrib.run(&msg_for_contrib): run takes self, a failed call leaves no Contributor
ApiContribRun ==
    /\ simPc = "contrib_run"
    /\ contrib # NoParty
    /\ \E r \in {Contributor_run(contrib, msg_for_contrib)} :
         /\ apiCall' = ApiCall("run_contrib", contrib, Len(contribTrace) - 1, r)
         /\ contrib' = IF r.err = "Ok" THEN r.st ELSE NoParty
         /\ msg_for_eval' = IF r.err = "Ok" THEN r.msg ELSE msg_for_eval
         /\ contribTrace' = IF r.err = "Ok" THEN Append(contribTrace, r.st.step)
                            ELSE contribTrace
    /\ simPc' = Turn(eval, "eval_run", contrib', "contrib_run")
    /\ UNCHANGED <<simArgs, eval, msg_for_contrib, simLoops, simResult, evalTrace,
                   tampered>>
    /\ UNCHANGED <<transcript, httpVars, queueVars, lockVars>>

\* eval.output(&msg_for_eval) when the evaluator is to be called next: output
\* takes self, so the Evaluator is gone whatever it returns
ApiOutput ==
    /\ simPc = "eval_run"
    /\ eval # NoParty
    /\ \E r \in {Evaluator_output(eval, msg_for_eval)} :
         /\ apiCall' = [op |-> "output", step |-> eval.step, runs |-> Len(evalTrace) - 1,
                        err |-> r.err, next |-> "None", msg |-> NoMsg]
         /\ simResult' = r
    /\ eval' = NoParty
    /\ simPc' = "done"
    /\ UNCHANGED <<simArgs, contrib, msg_for_eval, msg_for_contrib, simLoops, evalTrace,
                   contribTrace, tampered>>
    /\ UNCHANGED <<transcript, httpVars, queueVars, lockVars>>

(***************************************************************************)
(* One-bit alterations of a message in flight                              *)
(***************************************************************************)

FlipBit(x, k) == Xor(x, 2 ^ k)

Site(f, i, j, k) == [f |-> f, i |-> i, j |-> j, k |-> k]

Bits == 0..(K - 1)

\* the places of a message where a share's bit, MAC, key, label or hash lives
LeafSites(m) ==
    CASE m.ty = "MacVec" ->
           {Site("v", i, 0, k) : i \in DOMAIN m.v, k \in Bits}
      [] m.ty = "AndHashes" ->
           UNION {{Site("v", i, j, k) : i \in DOMAIN m.v, k \in Bits} : j \in 0..1}
      [] m.ty = "MacVecAndPairs" ->
           {Site("v", i, 0, k) : i \in DOMAIN m.v, k \in Bits}
             \cup UNION {{Site("pairs", i, j, k) : i \in DOMAIN m.pairs, k \in Bits} : j \in 0..1}
      [] m.ty = "BoolsAndMacs" ->
           {Site("bits", i, 0, 0) : i \in DOMAIN m.bits}
             \cup {Site("macs", i, 0, k) : i \in DOMAIN m.macs, k \in Bits}
      [] m.ty = "BoolsAndBools" ->
           {Site("a", i, 0, 0) : i \in DOMAIN m.a} \cup {Site("b", i, 0, 0) : i \in DOMAIN m.b}
      [] m.ty = "TablesAndShares" ->
           UNION {{Site("tables.mac", i, j, k) : i \in DOMAIN m.tables, k \in Bits}
                    \cup {Site("tables.key", i, j, k) : i \in DOMAIN m.tables, k \in Bits}
                    \cup {Site("tables.bit", i, j, 0) : i \in DOMAIN m.tables} : j \in 0..3}
             \cup {Site("shares.bit", i, 0, 0) : i \in DOMAIN m.shares}
             \cup {Site("shares.mac", i, 0, k) : i \in DOMAIN m.shares, k \in Bits}
      [] m.ty = "SharesAndInputs" ->
           {Site("shares.bit", i, 0, 0) : i \in DOMAIN m.shares}
             \cup {Site("shares.mac", i, 0, k) : i \in DOMAIN m.shares, k \in Bits}
             \cup {Site("inputs.bit", i, 0, 0) : i \in DOMAIN m.inputs}
      [] m.ty = "InputsAndShares" ->
           {Site("inputs.label", i, 0, k) : i \in DOMAIN m.inputs, k \in Bits}
             \cup {Site("inputs.bit", i, 0, 0) : i \in DOMAIN m.inputs}
             \cup {Site("shares.bit", i, 0, 0) : i \in DOMAIN m.shares}
             \cup {Site("shares.mac", i, 0, k) : i \in DOMAIN m.shares, k \in Bits}
      [] OTHER -> {}

\* the message with the bit at site s inverted
FlipLeaf(m, s) ==
    CASE s.f = "v" /\ m.ty = "AndHashes" -> [m EXCEPT !.v[s.i][s.j] = FlipBit(@, s.k)]
      [] s.f = "v" /\ m.ty # "AndHashes" -> [m EXCEPT !.v[s.i] = FlipBit(@, s.k)]
      [] s.f = "pairs" -> [m EXCEPT !.pairs[s.i][s.j] = FlipBit(@, s.k)]
      [] s.f = "bits" -> [m EXCEPT !.bits[s.i] = ~@]
      [] s.f = "macs" -> [m EXCEPT !.macs[s.i] = FlipBit(@, s.k)]
      [] s.f = "a" -> [m EXCEPT !.a[s.i] = ~@]
      [] s.f = "b" -> [m EXCEPT !.b[s.i] = ~@]
      [] s.f = "tables.mac" -> [m EXCEPT !.tables[s.i].values[s.j].mac = FlipBit(@, s.k)]
      [] s.f = "tables.key" -> [m EXCEPT !.tables[s.i].values[s.j].key = FlipBit(@, s.k)]
      [] s.f = "tables.bit" -> [m EXCEPT !.tables[s.i].values[s.j].bit = ~@]
      [] s.f = "shares.bit" -> [m EXCEPT !.shares[s.i].bit = ~@]
      [] s.f = "shares.mac" -> [m EXCEPT !.shares[s.i].mac = FlipBit(@, s.k)]
      [] s.f = "inputs.label" -> [m EXCEPT !.inputs[s.i].label = FlipBit(@, s.k)]
      [] s.f = "inputs.bit" -> [m EXCEPT !.inputs[s.i].bit = ~@]

\* the alterations of a message: of the message itself, or of one half of a pair
Alterations(m) ==
    IF m.ty = "MsgPair"
    THEN {[half |-> 1, ty |-> m.m1.ty, site |-> s] : s \in LeafSites(m.m1)}
           \cup {[half |-> 2, ty |-> m.m2.ty, site |-> s] : s \in LeafSites(m.m2)}
    ELSE {[half |-> 0, ty |-> m.ty, site |-> s] : s \in LeafSites(m)}

Alter(m, alt) ==
    CASE alt.half = 0 -> FlipLeaf(m, alt.site)
      [] alt.half = 1 -> [m EXCEPT !.m1 = FlipLeaf(@, alt.site)]
      [] alt.half = 2 -> [m EXCEPT !.m2 = FlipLeaf(@, alt.site)]

\* one bit of one share of the message about to be read is inverted, once per run
Tamper ==
    /\ tampered = NoTamper
    /\ \/ /\ simPc \in {"eval_run", "output"}
          /\ \E alt \in Alterations(msg_for_eval) :
               /\ msg_for_eval' = Alter(msg_for_eval, alt)
               /\ tampered' = [kind |-> "flip", to |-> "Evaluator", loops |-> simLoops,
                               half |-> alt.half, ty |-> alt.ty, site |-> alt.site]
          /\ UNCHANGED msg_for_contrib
       \/ /\ simPc = "contrib_run"
          /\ \E alt \in Alterations(msg_for_contrib) :
               /\ msg_for_contrib' = Alter(msg_for_contrib, alt)
               /\ tampered' = [kind |-> "flip", to |-> "Contributor", loops |-> simLoops,
                               half |-> alt.half, ty |-> alt.ty, site |-> alt.site]
          /\ UNCHANGED msg_for_eval
    /\ UNCHANGED <<simArgs, simPc, eval, contrib, simLoops, simResult, evalTrace, contribTrace>>
    /\ UNCHANGED <<apiCall, transcript, httpVars, queueVars, lockVars>>

\* the most (index, masked bit) entries of a forged final message
MaxEntries == 2

\* the (index, masked bit) lists an evaluator may put into its last message
ForgedInputs(circuit) ==
    UNION {[0..(n - 1) -> [index : DOMAIN circuit.gates, bit : BOOLEAN]] : n \in 0..MaxEntries}

\* the evaluator sends its last message with a list of masked inputs of its
\* own making instead of the one its step produced
ForgeInputs ==
    /\ tampered = NoTamper
    /\ simPc = "contrib_run"
    /\ msg_for_contrib.ty = "SharesAndInputs"
    /\ \E v \in ForgedInputs(simArgs.circuit) :
         /\ msg_for_contrib' = [msg_for_contrib EXCEPT !.inputs = v]
         /\ tampered' = [kind |-> "inputs", to |-> "Contributor", loops |-> simLoops,
                         honest |-> msg_for_contrib.inputs]
    /\ UNCHANGED <<simArgs, simPc, eval, contrib, msg_for_eval, simLoops, simResult,
                   evalTrace, contribTrace>>
    /\ UNCHANGED <<apiCall, transcript, httpVars, queueVars, lockVars>>

(***************************************************************************)
(* Pure functions applied to enumerated arguments                          *)
(***************************************************************************)

\* the state before a function is applied to the arguments in simArgs
FunctionStart(pc) ==
    /\ simPc = pc
    /\ eval = NoParty
    /\ contrib = NoParty
    /\ msg_for_eval = NoMsg
    /\ msg_for_contrib = NoMsg
    /\ simLoops = 0
    /\ simResult = NoResult
    /\ evalTrace = <<>>
    /\ contribTrace = <<>>
    /\ tampered = NoTamper
    /\ apiCall = NoCall
    /\ transcript = <<>>

\* the largest jointly tossed coin tried
MaxCoin == 15

\* the largest number of AND gates whose triples are permuted
MaxPermGates == 3

\* the bucket sizes bucket_size returns
BucketSizes == {3, 4, 5}

\* a coin both parties hold and a pool of length * bucket_size leaky triples
PermStart ==
    /\ simArgs \in [coin : 0..MaxCoin, length : 0..MaxPermGates, bucket_size : BucketSizes]
    /\ FunctionStart("new_permutation")

\* AndsBucketingState::init of one party: the permutation drawn from the coin
Permuted(coin, length, bs) ==
    [step |-> "Bucketing",
     st |-> [permutation |-> new_permutation(RngFromSeed(coin), length * bs),
             length |-> length,
             bucket_size |-> bs]]

\* the contributor derives its permutation (ot_ands6 in Step4)
PermContrib ==
    /\ simPc = "new_permutation"
    /\ contrib = NoParty
    /\ contrib' = Permuted(simArgs.coin, simArgs.length, simArgs.bucket_size)
    /\ UNCHANGED <<simArgs, simPc, eval, msg_for_eval, msg_for_contrib, simLoops, simResult,
                   evalTrace, contribTrace, tampered, apiCall>>
    /\ UNCHANGED <<transcript, httpVars, queueVars, lockVars>>

\* the evaluator derives its permutation (ot_ands6 in Step5)
PermEval ==
    /\ simPc = "new_permutation"
    /\ eval = NoParty
    /\ eval' = Permuted(simArgs.coin, simArgs.length, simArgs.bucket_size)
    /\ UNCHANGED <<simArgs, simPc, contrib, msg_for_eval, msg_for_contrib, simLoops,
                   simResult, evalTrace, contribTrace, tampered, apiCall>>
    /\ UNCHANGED <<transcript, httpVars, queueVars, lockVars>>

\* the K keys a party holds for the bits of its peer
LeakyKeys(seed) == [i \in 0..(K - 1) |-> RngU128(RngFromSeed(seed), 1 + i)]

\* the global key (Delta) of a party
LeakyDelta(seed) == RngU128(RngFromSeed(seed), 0)

\* authenticated bits x of two parties (keys and deltas drawn from a seed
\* each, MACs consistent with them), bits y and random masks
LeakyStart ==
    /\ simArgs \in [seed_a : Seeds, seed_b : Seeds, bits_a : 0..(M - 1), bits_b : 0..(M - 1),
                    y_a : 0..(M - 1), y_b : 0..(M - 1),
                    random_a : 0..(M - 1), random_b : 0..(M - 1)]
    /\ FunctionStart("leaky_and")

\* the authenticated bits of a party laid out as the x part of triples: bit i
\* of bits at index 3 * i, with the MAC under the key and delta of the peer
XShares(bits, peer_keys, peer_delta) ==
    [n \in 0..(3 * K - 1) |->
       IF n % 3 = 0
       THEN [key |-> 0,
             mac |-> Xor(peer_keys[n \div 3], IfBit(TestBit(bits, n \div 3), peer_delta)),
             bit |-> TestBit(bits, n \div 3)]
       ELSE BitShare_default]

\* each party hashes for its peer (compute_leaky_and_hashes) and derives its
\* share from the hashes of the peer (derive_and_shares)
LeakyAnd ==
    /\ simPc = "leaky_and"
    /\ LET a == simArgs
           d_a == LeakyDelta(a.seed_a)
           d_b == LeakyDelta(a.seed_b)
           keys_a == LeakyKeys(a.seed_a)
           keys_b == LeakyKeys(a.seed_b)
           hashes_b == [i \in 0..(K - 1) |->
                          compute_leaky_and_hashes(d_a, a.random_a, a.y_a, keys_a[i], i)]
           hashes_a == [i \in 0..(K - 1) |->
                          compute_leaky_and_hashes(d_b, a.random_b, a.y_b, keys_b[i], i)]
       IN  apiCall' =
               [op |-> "leaky_and",
                shares_a |-> derive_and_shares(a.random_a, a.bits_a,
                                               XShares(a.bits_a, keys_b, d_b), 0, hashes_a, 0),
                shares_b |-> derive_and_shares(a.random_b, a.bits_b,
                                               XShares(a.bits_b, keys_a, d_a), 0, hashes_b, 0)]
    /\ simPc' = "done"
    /\ UNCHANGED <<simArgs, eval, contrib, msg_for_eval, msg_for_contrib, simLoops,
                   simResult, evalTrace, contribTrace, tampered>>
    /\ UNCHANGED <<transcript, httpVars, queueVars, lockVars>>

\* the coins a party may draw: rng.fill(&mut [u8; 32]), scaled down
Coins == 0..(SeedMod - 1)

\* party A tosses coin_a and follows the protocol; party B tosses coin_b,
\* commits to the coin `committed` and reveals the coin `revealed`
CoinStart ==
    /\ simArgs \in [coin_a : Coins, coin_b : Coins, committed : Coins, revealed : Coins]
    /\ FunctionStart("cointossing_init")

\* cointossing::init on both parties: the commitments are exchanged
CoinInit ==
    /\ simPc = "cointossing_init"
    /\ eval' = [step |-> "Committed",
                st |-> [coin_share |-> cointossing_init(simArgs.coin_a).coin_share]]
    /\ contrib' = [step |-> "Committed",
                   st |-> [coin_share |-> cointossing_init(simArgs.coin_b).coin_share]]
    /\ msg_for_contrib' = [ty |-> "Commitment", bytes |-> cointossing_init(simArgs.coin_a).msg]
    /\ msg_for_eval' = [ty |-> "Commitment", bytes |-> cointossing_init(simArgs.committed).msg]
    /\ simPc' = "cointossing_finish"
    /\ UNCHANGED <<simArgs, simLoops, simResult, evalTrace, contribTrace, tampered, apiCall>>
    /\ UNCHANGED <<transcript, httpVars, queueVars, lockVars>>

\* the coins are revealed and cointossing::finish runs on both parties
CoinFinish ==
    /\ simPc = "cointossing_finish"
    /\ eval' = [step |-> "Tossed",
                st |-> cointossing_finish(eval.st.coin_share, msg_for_eval.bytes,
                                          simArgs.revealed)]
    /\ contrib' = [step |-> "Tossed",
                   st |-> cointossing_finish(contrib.st.coin_share, msg_for_contrib.bytes,
                                             simArgs.coin_a)]
    /\ simPc' = "done"
    /\ UNCHANGED <<simArgs, msg_for_eval, msg_for_contrib, simLoops, simResult, evalTrace,
                   contribTrace, tampered, apiCall>>
    /\ UNCHANGED <<transcript, httpVars, queueVars, lockVars>>

(***************************************************************************)
(* HTTP session: client loop, server handlers, transport                   *)
(***************************************************************************)

\* requests the client may send before the run is cut off
MaxRequests == 12

\* requests and responses the transport may lose or duplicate
MaxFaults == 1

\* requests and responses that come from neither the client nor the server
MaxRogues == 2

\* responses that may be forged
MaxForged == 1

\* the largest offset a request or response of unknown origin names
MaxOffset == 2

HttpCircuits == {XorAndCircuit}

\* the engine id create_session handed to the client
SessionId == "engine-1"

\* the engine ids requests are addressed to
RequestIds == {SessionId, "engine-2"}

\* the seeds of the two ChaCha20Rng::from_entropy() of a session
ServerSeed == NumSeeds - 1

ClientSeed == NumSeeds - 2

EmptyRegistry == [id \in {} |-> None]

NoArgs == [circuit |-> "none"]

\* the values of the HTTP variables while simulate runs
HttpIdle ==
    /\ httpArgs = NoArgs
    /\ registry = EmptyRegistry
    /\ client = [pc |-> "idle"]
    /\ request = None
    /\ response = None
    /\ calls = <<>>
    /\ served = <<>>
    /\ handled = None
    /\ reqCount = 0
    /\ faults = 0
    /\ rogues = 0

\* the values of the variables of the lone queue while it is not used
QueueIdle ==
    /\ queue = MsgQueue_new
    /\ sent = <<>>
    /\ read = None
    /\ flushed = <<>>

\* no dialog handler runs on its own thread
LockIdle ==
    /\ mutex = None
    /\ threads = <<>>

\* the values of the variables of simulate during an HTTP session
SimIdle ==
    /\ simArgs = NoArgs
    /\ simPc = "idle"
    /\ eval = NoParty
    /\ contrib = NoParty
    /\ msg_for_eval = NoMsg
    /\ msg_for_contrib = NoMsg
    /\ simLoops = 0
    /\ simResult = NoResult
    /\ evalTrace = <<>>
    /\ contribTrace = <<>>
    /\ tampered = NoTamper
    /\ apiCall = NoCall
    /\ transcript = <<>>

\* a session as create_session and TandemSession::evaluate set it up
HttpInit ==
    /\ SimIdle
    /\ QueueIdle /\ LockIdle
    /\ \E c \in HttpCircuits :
         \E a \in BoolVecs(c.contrib_inputs), b \in BoolVecs(c.eval_inputs) :
           \E ss \in {ServerSeed}, sc \in {ClientSeed}, oc \in BOOLEAN :
             /\ httpArgs = [circuit |-> c, input_server |-> a, input_client |-> b,
                            seed_server |-> ss, seed_client |-> sc, overflow_checks |-> oc]
             /\ registry = insert_engine(EmptyRegistry, SessionId,
                                         Locked(EngineRef_new(ss, c, a).engine, FALSE))
             /\ client = Session_evaluate(c, b, sc)
    /\ request = None
    /\ response = None
    /\ calls = <<>>
    /\ served = <<>>
    /\ handled = None
    /\ reqCount = 0
    /\ faults = 0
    /\ rogues = 0

\* the offsets of the calls in which Contributor::run was called
RECURSIVE RanOffsets(_)
RanOffsets(log) ==
    IF log = <<>> THEN <<>>
    ELSE (IF log[1].ran THEN <<log[1].offset>> ELSE <<>>) \o RanOffsets(Tail(log))

\* evaluate: context.msgs_iter().collect(), send_msgs
ClientSend ==
    /\ client.pc = "send"
    /\ reqCount < MaxRequests
    /\ LET messages == msgs_iter(client.context)
       IN  /\ request' = Some([engine_id |-> SessionId,
                               body |-> Body(client.last_durably_received_offset, messages)])
           /\ client' = [client EXCEPT !.pc = "await", !.messages = messages]
    /\ reqCount' = reqCount + 1
    /\ UNCHANGED <<httpArgs, registry, response, calls, served, handled, faults, rogues>>
    /\ UNCHANGED <<simVars, queueVars, lockVars>>

\* the outcome of the dialog handler on a request
Handle(req) == dialog(registry, req.engine_id, req.body, httpArgs.overflow_checks)

\* the effect of the dialog handler on the server
Serve(d) ==
    /\ registry' = d.registry
    /\ calls' = d.calls
    /\ served' = served \o RanOffsets(d.calls)

\* the dialog handler on the client's request
ServerDialog ==
    /\ request # None
    /\ \E d \in {Handle(request[1])} :
         /\ Serve(d)
         /\ response' = Some(d.resp)
    /\ request' = None
    /\ UNCHANGED <<httpArgs, client, handled, reqCount, faults, rogues>>
    /\ UNCHANGED <<simVars, queueVars, lockVars>>

\* the history kept of a response the client handles
Handled(cl, resp) ==
    [sent |-> LastId(cl.messages),
     commited |-> resp.message_id,
     offsets |-> [i \in 1..Len(resp.msgs) |-> resp.msgs[i][2]],
     last_before |-> cl.last_durably_received_offset,
     consumed_before |-> cl.consumed]

\* evaluate: self.dialog(..) returns, the rest of the loop body runs
ClientReceive ==
    /\ client.pc = "await"
    /\ response # None
    /\ IF response[1].status = "Ok"
       THEN /\ client' = evaluate_response(client, response[1].msgs, response[1].message_id)
            /\ handled' = Some(Handled(client, response[1]))
       ELSE /\ client' = dialog_error(client)
            /\ UNCHANGED handled
    /\ response' = None
    /\ UNCHANGED <<httpArgs, registry, request, calls, served, reqCount, faults, rogues>>
    /\ UNCHANGED <<simVars, queueVars, lockVars>>

\* what reqwest reports when no response arrives
TransportError == ErrResponse("Reqwest")

\* the transport loses the request: the server never sees it
LoseRequest ==
    /\ request # None
    /\ faults < MaxFaults
    /\ request' = None
    /\ response' = Some(TransportError)
    /\ faults' = faults + 1
    /\ UNCHANGED <<httpArgs, registry, client, calls, served, handled, reqCount, rogues>>
    /\ UNCHANGED <<simVars, queueVars, lockVars>>

\* the transport loses the response to a request the server has handled
LoseResponse ==
    /\ response # None
    /\ response[1] # TransportError
    /\ faults < MaxFaults
    /\ response' = Some(TransportError)
    /\ faults' = faults + 1
    /\ UNCHANGED <<httpArgs, registry, client, request, calls, served, handled, reqCount,
                   rogues>>
    /\ UNCHANGED <<simVars, queueVars, lockVars>>

\* the transport delivers the request twice: the server handles it, its
\* first response is dropped and the request is delivered again
DuplicateRequest ==
    /\ request # None
    /\ faults < MaxFaults
    /\ \E d \in {Handle(request[1])} : Serve(d)
    /\ faults' = faults + 1
    /\ UNCHANGED <<httpArgs, client, request, response, handled, reqCount, rogues>>
    /\ UNCHANGED <<simVars, queueVars, lockVars>>

Offsets == 0..MaxOffset

\* the values a last_durably_received_offset or a message_id of unknown origin takes
OptOffsets == {None} \cup {Some(o) : o \in Offsets}

\* message lists of unknown origin: undecodable payloads or copies of the
\* given payloads, under any offsets
AnyMessages(payloads) ==
    {<<>>} \cup {<<<<p, o>>>> : p \in {Garbage} \cup payloads, o \in Offsets}
        \cup {<<<<p, o>>, <<Garbage, n>>>> : p \in payloads, o \in Offsets, n \in Offsets}

Range(s) == {s[i] : i \in DOMAIN s}

\* dialog requests of unknown origin: to an engine id that is not registered,
\* with an undecodable body, with any acknowledgement, or with any messages
RogueRequests(payloads) ==
    {[engine_id |-> id, body |-> Body(None, <<>>)] : id \in RequestIds \ {SessionId}}
        \cup {[engine_id |-> SessionId, body |-> GarbageBody]}
        \cup {[engine_id |-> SessionId, body |-> Body(ack, <<>>)] : ack \in OptOffsets}
        \cup {[engine_id |-> SessionId, body |-> Body(None, msgs)] :
                  msgs \in AnyMessages(payloads)}
        \cup {[engine_id |-> SessionId, body |-> Body(None, <<<<Garbage, o>>, <<Garbage, n>>>>)] :
                  o \in Offsets, n \in Offsets}

\* a dialog request from someone other than the client's loop
RogueDialog ==
    /\ rogues < MaxRogues
    /\ \E req \in RogueRequests(Range(client.context.send_q)) :
         \E d \in {Handle(req)} : Serve(d)
    /\ rogues' = rogues + 1
    /\ UNCHANGED <<httpArgs, client, request, response, handled, reqCount, faults>>
    /\ UNCHANGED <<simVars, queueVars, lockVars>>

\* the payloads of a response
Payloads(resp) == IF resp.status = "Ok" THEN {m[1] : m \in Range(resp.msgs)} ELSE {}

\* the response is replaced by one the server did not give
ForgedResponse ==
    /\ response # None
    /\ rogues < MaxForged
    /\ \E msgs \in AnyMessages(Payloads(response[1])), id \in OptOffsets :
         response' = Some(OkResponse(msgs, id))
    /\ rogues' = rogues + 1
    /\ UNCHANGED <<httpArgs, registry, client, request, calls, served, handled, reqCount,
                   faults>>
    /\ UNCHANGED <<simVars, queueVars, lockVars>>

(***************************************************************************)
(* Two dialog handlers on one engine, statement by statement               *)
(***************************************************************************)

\* the threads Rocket runs the two handlers on
Threads == {"first", "second"}

\* the locals of a dialog handler: its request body, the registry as it was
\* when it asked for the Mutex and as it was when the guard was dropped, the
\* messages still to process, the calls made and the response
Handler(pc, body) ==
    [pc |-> pc, body |-> body, seen |-> None, left |-> None, rest |-> <<>>,
     log |-> <<>>, resp |-> None]

\* Mutex::lock that never blocks
MutexFree_always(holder) == TRUE

\* Mutex::lock returns only while no guard is alive
MutexFree(holder) == holder = None

\* what the client queues after the first response: its message 0
FirstClientMessages ==
    Range(evaluate_response(client, msgs_iter(registry[SessionId].engine.context),
                            None).context.send_q)

\* the bodies of the two requests: any acknowledgement; no message, message 0
\* of the client, an undecodable message 0 or 1, or message 0 and another
LockBodies(payloads) ==
    {Body(ack, msgs) : ack \in {None, Some(0)},
                       msgs \in {<<>>, <<<<Garbage, 0>>>>, <<<<Garbage, 1>>>>}
                                  \cup {<<<<p, 0>>>> : p \in payloads}
                                  \cup {<<<<p, 0>>, <<Garbage, 1>>>> : p \in payloads}}

\* dialog: the body is deserialized and registry.lookup returns the engine
DialogArrives(t) ==
    /\ t \notin DOMAIN threads
    /\ \E body \in LockBodies(FirstClientMessages) :
         threads' = [u \in DOMAIN threads \cup {t} |->
                        IF u = t THEN Handler("lock", body) ELSE threads[u]]
    /\ UNCHANGED <<mutex, httpVars>>
    /\ UNCHANGED <<simVars, queueVars>>

\* the handler returns: the guard is dropped
Returns(t, reg, resp, log) ==
    /\ threads' = [threads EXCEPT ![t].pc = "done", ![t].resp = Some(resp), ![t].log = log,
                                  ![t].left = Some(reg)]
    /\ registry' = reg
    /\ mutex' = IF mutex = Some(t) THEN None ELSE mutex

\* dialog: engine.lock().unwrap(), which panics on a poisoned Mutex
DialogLock(t) ==
    /\ t \in DOMAIN threads
    /\ threads[t].pc = "lock"
    /\ MutexFree(mutex)
    /\ IF registry[SessionId].poisoned
       THEN /\ threads' = [threads EXCEPT ![t].pc = "done", ![t].seen = Some(registry),
                                          ![t].left = Some(registry),
                                          ![t].resp = Some(ErrResponse("Panic"))]
            /\ UNCHANGED <<mutex, registry>>
       ELSE /\ threads' = [threads EXCEPT ![t].pc = "flush", ![t].seen = Some(registry)]
            /\ mutex' = Some(t)
            /\ UNCHANGED registry
    /\ UNCHANGED <<httpArgs, client, request, response, calls, served, handled, reqCount,
                   faults, rogues>>
    /\ UNCHANGED <<simVars, queueVars>>

\* dialog: if let Some(offset) = last_durably_received_offset { engine.flush_queue(offset) }
DialogFlush(t) ==
    /\ t \in DOMAIN threads
    /\ threads[t].pc = "flush"
    /\ LET ack == threads[t].body.last_durably_received_offset
       IN  registry' =
               IF ack # None
               THEN [registry EXCEPT ![SessionId].engine.context = flush_queue(@, ack[1]).queue]
               ELSE registry
    /\ threads' = [threads EXCEPT ![t].pc = "process", ![t].rest = threads[t].body.messages]
    /\ UNCHANGED <<mutex, httpArgs, client, request, response, calls, served, handled,
                   reqCount, faults, rogues>>
    /\ UNCHANGED <<simVars, queueVars>>

\* dialog: one iteration of for (msg, offset) in messages { engine.process_message(..)?; }
DialogProcess(t) ==
    /\ t \in DOMAIN threads
    /\ threads[t].pc = "process"
    /\ threads[t].rest # <<>>
    /\ LET engine == registry[SessionId].engine
           msg == threads[t].rest[1][1]
           offset == threads[t].rest[1][2]
       IN  \E r \in {process_message(engine, msg, offset, httpArgs.overflow_checks)} :
             LET log == Append(threads[t].log, Call(engine, offset, r))
                 reg(poisoned) == [registry EXCEPT ![SessionId] = Locked(r.engine, poisoned)]
             IN  IF r.err = "Panic"
                 THEN Returns(t, reg(TRUE), ErrResponse("Panic"), log)
                 ELSE IF r.err # "Ok"
                 THEN Returns(t, reg(FALSE), ErrResponse(r.err), log)
                 ELSE /\ registry' = reg(FALSE)
                      /\ threads' = [threads EXCEPT ![t].rest = Tail(@), ![t].log = log]
                      /\ UNCHANGED mutex
    /\ UNCHANGED <<httpArgs, client, request, response, calls, served, handled, reqCount,
                   faults, rogues>>
    /\ UNCHANGED <<simVars, queueVars>>

\* dialog after the loop: the snapshot (dump_messages, last offset), drop_engine
\* if is_done, the serialized response
DialogRespond(t) ==
    /\ t \in DOMAIN threads
    /\ threads[t].pc = "process"
    /\ threads[t].rest = <<>>
    /\ LET engine == registry[SessionId].engine
       IN  Returns(t,
                   IF is_done(engine) THEN drop_engine(registry, SessionId) ELSE registry,
                   OkResponse(msgs_iter(engine.context),
                              engine.last_durably_received_client_event_offset),
                   threads[t].log)
    /\ UNCHANGED <<httpArgs, client, request, response, calls, served, handled, reqCount,
                   faults, rogues>>
    /\ UNCHANGED <<simVars, queueVars>>

\* the delete_session handler, called by anyone
DeleteSession ==
    /\ rogues < MaxRogues
    /\ \E id \in RequestIds : registry' = delete_session(registry, id).registry
    /\ rogues' = rogues + 1
    /\ UNCHANGED <<httpArgs, client, request, response, calls, served, handled, reqCount,
                   faults>>
    /\ UNCHANGED <<simVars, queueVars, lockVars>>

(***************************************************************************)
(* A message queue under arbitrary send, flush_queue and msgs_iter calls   *)
(***************************************************************************)

\* messages sent on the lone queue before it is left alone
MaxSends == 4

QueuePayloads == {[ty |-> "Empty"], [ty |-> "Garbage"]}

QueueInit ==
    /\ SimIdle
    /\ HttpIdle
    /\ QueueIdle /\ LockIdle

\* the record kept of a flush_queue call: the queue and the last read before
\* it, the offset, the queue after it and the number it returned
Flush(before, read_before, offset, r) ==
    [before |-> before, read |-> read_before, offset |-> offset,
     after |-> r.queue, removed |-> r.removed]

\* the last two elements of a sequence
LastTwo(s) == IF Len(s) <= 2 THEN s ELSE SubSeq(s, Len(s) - 1, Len(s))

\* MsgQueue::send
QueueSend ==
    /\ Len(sent) < MaxSends
    /\ \E msg \in QueuePayloads :
         /\ queue' = MsgQueue_send(queue, msg)
         /\ sent' = Append(sent, msg)
    /\ read' = None
    /\ flushed' = <<>>
    /\ UNCHANGED <<simVars, httpVars, lockVars>>

\* MsgQueue::flush_queue
QueueFlush ==
    /\ \E last_durably_received_offset \in 0..MaxSends :
         \E r \in {flush_queue(queue, last_durably_received_offset)} :
           /\ queue' = r.queue
           /\ flushed' = LastTwo(Append(flushed,
                              Flush(queue, read, last_durably_received_offset, r)))
    /\ read' = None
    /\ UNCHANGED sent
    /\ UNCHANGED <<simVars, httpVars, lockVars>>

\* MsgQueue::msgs_iter, collected
QueueRead ==
    /\ read' = Some(msgs_iter(queue))
    /\ UNCHANGED <<queue, sent, flushed>>
    /\ UNCHANGED <<simVars, httpVars, lockVars>>

QueueNext == QueueSend \/ QueueFlush \/ QueueRead

\* every request is delivered once and answered once
HonestNext == ClientSend \/ ServerDialog \/ ClientReceive

\* the transport loses and duplicates, strangers send requests
HttpNext ==
    \/ ClientSend
    \/ ServerDialog
    \/ ClientReceive
    \/ LoseRequest
    \/ LoseResponse
    \/ DuplicateRequest
    \/ RogueDialog
    \/ DeleteSession

\* the responses the client reads may be forged
ForgedNext == ClientSend \/ ServerDialog \/ ClientReceive \/ ForgedResponse

vars == <<simVars, httpVars, queueVars, lockVars>>

SimInit == SimInitWith(SimCircuits) /\ HttpIdle /\ QueueIdle /\ LockIdle

SimNext == SimNew \/ SimEvalRun \/ SimContribRun \/ SimOutput

\* simulate on every enumerated circuit, input pair and pair of seeds
SpecSim == SimInit /\ [][SimNext]_vars

DiscloseInit == SimInitWith({XorAndCircuit}) /\ HttpIdle /\ QueueIdle /\ LockIdle

DiscloseNext == SimNew \/ SimEvalRun \/ SimContribRun \/ SimOutput \/ ForgeInputs

\* simulate with an evaluator that chooses the masked inputs of its last message
SpecDisclose == DiscloseInit /\ [][DiscloseNext]_vars

PermInit == PermStart /\ HttpIdle /\ QueueIdle /\ LockIdle

PermNext == PermContrib \/ PermEval

\* new_permutation of both parties on every coin and pool size tried
SpecPerm == PermInit /\ [][PermNext]_vars

LeakyInit == LeakyStart /\ HttpIdle /\ QueueIdle /\ LockIdle

\* the two halves of the leaky AND on every enumerated pair of parties
SpecLeaky == LeakyInit /\ [][LeakyAnd]_vars

CoinTossInit == CoinStart /\ HttpIdle /\ QueueIdle /\ LockIdle

CoinTossNext == CoinInit \/ CoinFinish

\* coin tossing between a party that follows the protocol and one that may not
SpecCoin == CoinTossInit /\ [][CoinTossNext]_vars

LockedNext ==
    \E t \in Threads :
        \/ DialogArrives(t)
        \/ DialogLock(t)
        \/ DialogFlush(t)
        \/ DialogProcess(t)
        \/ DialogRespond(t)

\* two dialog requests to the engine of a session, handled side by side
SpecLocked == HttpInit /\ [][LockedNext]_vars

BristolInit == BristolStart /\ HttpIdle /\ QueueIdle /\ LockIdle

\* from_bristol_format on every enumerated text
SpecBristol == BristolInit /\ [][FromBristol]_vars

RerunInit == SimInitWith(RerunCircuits) /\ HttpIdle /\ QueueIdle /\ LockIdle

RerunNext == SimNew \/ SimEvalRun \/ SimContribRun \/ SimOutput \/ SimAgain

\* simulate twice on every enumerated circuit, input pair and pair of seeds
SpecRerun == RerunInit /\ [][RerunNext]_vars

ValidateInit == ValidateStart /\ HttpIdle /\ QueueIdle /\ LockIdle

\* validate on every enumerated circuit
SpecValidate == ValidateInit /\ [][Validate]_vars

NewInit == NewStart /\ HttpIdle /\ QueueIdle /\ LockIdle

NewNext == NewEvaluator \/ NewContributor \/ SimNew \/ SimEvalRun \/ SimContribRun \/ SimOutput

\* each constructor alone, and simulate, on every enumerated circuit and input
SpecNew == NewInit /\ [][NewNext]_vars

(***************************************************************************)
(* create_session: the server's handler for a NewSession request           *)
(***************************************************************************)

\* the create_session requests of one behaviour
MaxCreates == 3

\* env!("CARGO_PKG_VERSION") of the server
ServerVersion == "server-version"

\* the strings a request carries as client_version
Versions == {ServerVersion, "other-version"}

\* the engine ids uuid::Builder::from_random_bytes can produce
EngineIds == {"engine-1", "engine-2"}

\* n InContrib gates and the given output gates
InputsCircuit(n, outs) == Circuit_new([i \in 0..(n - 1) |-> InContrib], ToVec(outs))

\* the circuits a client or the server's handler may hold: two that pass
\* validation, XorAndCircuit, and one without gates
CreateCircuits ==
    {InputsCircuit(MaxHashGates, <<0>>), InputsCircuit(MaxHashGates - 4, <<0, 0>>),
     XorAndCircuit, Circuit_new(EmptyVec, EmptyVec)}

\* the server's HandleMpcRequestFn: the circuit it selects for each program
Programs ==
    [program \in {"inputs-many", "inputs-one", "xor-and", "empty"} |->
        CASE program = "inputs-many" -> InputsCircuit(MaxHashGates, <<0>>)
          [] program = "inputs-one" -> InputsCircuit(MaxHashGates - 4, <<0, 0>>)
          [] program = "xor-and" -> XorAndCircuit
          [] program = "empty" -> Circuit_new(EmptyVec, EmptyVec)]

\* EngineRegistry::handle_input
handle_input(invocation) ==
    IF invocation.program \in DOMAIN Programs
    THEN [err |-> "Ok", circuit |-> Programs[invocation.program],
          input_from_server |-> FalseVec(Programs[invocation.program].contrib_inputs)]
    ELSE [err |-> "MpcRequestRejected"]

\* TandemClient::new_session: the NewSession request for a circuit (the
\* circuit itself stays with the client), with a client_version
NewSession(circuit, program, version) ==
    [program |-> program, circuit_hash |-> blake3_hash_input(circuit),
     client_version |-> version, circuit |-> circuit]

\* the outcome of create_session: the error, the registry afterwards, whether
\* Contributor::new was called, and the circuit the handler selected
SessionResult(err, reg, engine_id, constructed, selected) ==
    [err |-> err, registry |-> reg, engine_id |-> engine_id,
     constructed |-> constructed, selected |-> selected]

\* create_session
create_session(r, req, engine_id, seed) ==
    LET inserted(er, h) ==
            IF er.err # "Ok"
            THEN SessionResult(er.err, r, None, TRUE, Some(h.circuit))
            ELSE IF engine_id \in DOMAIN r
            THEN SessionResult("DuplicateEngineId", r, None, TRUE, Some(h.circuit))
            ELSE SessionResult("Ok", insert_engine(r, engine_id, Locked(er.engine, FALSE)),
                               Some(engine_id), TRUE, Some(h.circuit))
        checked(h) ==
            IF h.err # "Ok"
            THEN SessionResult("MpcRequestRejected", r, None, FALSE, None)
            ELSE IF blake3_hash_input(h.circuit) # req.circuit_hash
            THEN SessionResult("CircuitHashMismatch", r, None, FALSE, Some(h.circuit))
            ELSE inserted(EngineRef_new(seed, h.circuit, h.input_from_server), h)
    IN  IF req.client_version # ServerVersion
        THEN SessionResult("IncompatibleVersions", r, None, FALSE, None)
        ELSE checked(handle_input(req))

\* a server without sessions and a client that has sent nothing
CreateStart ==
    /\ httpArgs = NoArgs
    /\ registry = EmptyRegistry
    /\ client = [pc |-> "idle"]
    /\ request = None
    /\ response = None
    /\ calls = <<>>
    /\ served = <<>>
    /\ handled = None
    /\ reqCount = 0
    /\ faults = 0
    /\ rogues = 0

\* a client's new_session for its circuit and the server's create_session
CreateSession ==
    /\ reqCount < MaxCreates
    /\ \E c \in CreateCircuits, program \in DOMAIN Programs \cup {"unknown"},
          version \in Versions, id \in EngineIds, seed \in Seeds :
         \E req \in {NewSession(c, program, version)} :
           \E res \in {create_session(registry, req, id, seed)} :
             /\ request' = Some(req)
             /\ response' = Some([res EXCEPT !.registry = registry])
             /\ registry' = res.registry
    /\ reqCount' = reqCount + 1
    /\ UNCHANGED <<httpArgs, client, calls, served, handled, faults, rogues>>
    /\ UNCHANGED <<simVars, queueVars, lockVars>>

CreateInit == SimIdle /\ QueueIdle /\ LockIdle /\ CreateStart

\* create_session under every enumerated request
SpecCreate == CreateInit /\ [][CreateSession]_vars

(***************************************************************************)
(* Several sessions on one server                                          *)
(***************************************************************************)

\* what a client of the engine queues after the first response: its message 0
ClientMessagesFor(engine) ==
    IF engine.tandem = None THEN {}
    ELSE LET circuit == engine.tandem[1].circuit
             cl == Session_evaluate(circuit, FalseVec(circuit.eval_inputs), ClientSeed)
         IN  IF cl.pc = "done" THEN {}
             ELSE Range(evaluate_response(cl, msgs_iter(engine.context), None).context.send_q)

\* the dialog bodies sent to an engine id: any acknowledgement; no message, an
\* undecodable message or message 0 of a client of that engine, at any offset
SessionBodies(reg, id) ==
    LET payloads == IF id \in DOMAIN reg THEN ClientMessagesFor(reg[id].engine) ELSE {}
    IN  {Body(ack, msgs) : ack \in {None, Some(0)},
                           msgs \in {<<>>} \cup {<<<<p, o>>>> : p \in {Garbage} \cup payloads,
                                                                o \in 0..1}}

\* the record kept of a dialog or delete request: the registry it found and
\* the response
Replied(op, reg, resp) == [op |-> op, registry |-> reg, resp |-> resp]

\* a dialog request to any engine id
SessionDialog ==
    /\ rogues < MaxRogues
    /\ \E id \in EngineIds, oc \in BOOLEAN :
         \E body \in SessionBodies(registry, id) :
           \E d \in {dialog(registry, id, body, oc)} :
             /\ request' = Some([engine_id |-> id, body |-> body])
             /\ response' = Some(Replied("dialog", registry, d.resp))
             /\ registry' = d.registry
             /\ calls' = d.calls
    /\ rogues' = rogues + 1
    /\ UNCHANGED <<httpArgs, client, served, handled, reqCount, faults>>
    /\ UNCHANGED <<simVars, queueVars, lockVars>>

\* a delete request to any engine id
SessionDelete ==
    /\ rogues < MaxRogues
    /\ \E id \in EngineIds :
         \E d \in {delete_session(registry, id)} :
           /\ request' = Some([engine_id |-> id, body |-> [ty |-> "Delete"]])
           /\ response' = Some(Replied("delete", registry, d.resp))
           /\ registry' = d.registry
    /\ rogues' = rogues + 1
    /\ UNCHANGED <<httpArgs, client, calls, served, handled, reqCount, faults>>
    /\ UNCHANGED <<simVars, queueVars, lockVars>>

\* a create request of a client that holds the circuit of its program
SessionCreate ==
    /\ reqCount < MaxCreates
    /\ \E program \in DOMAIN Programs, id \in EngineIds, seed \in Seeds :
         \E req \in {NewSession(Programs[program], program, ServerVersion)} :
           \E res \in {create_session(registry, req, id, seed)} :
             /\ request' = Some(req)
             /\ response' = Some([res EXCEPT !.registry = registry])
             /\ registry' = res.registry
    /\ reqCount' = reqCount + 1
    /\ UNCHANGED <<httpArgs, client, calls, served, handled, faults, rogues>>
    /\ UNCHANGED <<simVars, queueVars, lockVars>>

SessionsNext == SessionCreate \/ SessionDialog \/ SessionDelete

\* create, dialog and delete requests to a server in any order
SpecSessions == CreateInit /\ [][SessionsNext]_vars

\* either a circuit given by its counts, or simulate on XorAndCircuit
BucketInit == (BucketStart \/ SimInitWith({XorAndCircuit})) /\ HttpIdle /\ QueueIdle /\ LockIdle

BucketNext == BucketSize \/ SimNew \/ SimEvalRun \/ SimContribRun \/ SimOutput

\* bucket_size around its thresholds, and the bucket size of both roles in
\* a run of simulate
SpecBucket == BucketInit /\ [][BucketNext]_vars

HashInit == HashStart /\ HttpIdle /\ QueueIdle /\ LockIdle

\* blake3_hash on every pair of hashed circuits
SpecHash == HashInit /\ [][Blake3Hash]_vars

ApiNext == SimNew \/ ApiEvalRun \/ ApiContribRun \/ ApiOutput

\* the two roles called beyond steps() run calls, output asked for at any time
SpecApi == SimInit /\ [][ApiNext]_vars

\* the seeds whose global key (Delta) is not zero
KeyedSeeds == {sd \in Seeds : RngU128(RngFromSeed(sd), 0) # 0}

TamperCircuits == {XorCircuit, XorAndCircuit}

TamperInit ==
    /\ SimInitWith(TamperCircuits)
    /\ HttpIdle
    /\ QueueIdle /\ LockIdle
    /\ simArgs.seed_contributor \in KeyedSeeds
    /\ simArgs.seed_evaluator \in KeyedSeeds
    /\ simArgs.seed_contributor # simArgs.seed_evaluator

TamperNext == SimNext \/ Tamper

\* simulate with one share of one message altered in one bit
SpecTamper == TamperInit /\ [][TamperNext]_vars

\* an HTTP session in which every request is delivered and answered once
SpecHonest == HttpInit /\ [][HonestNext]_vars

\* an HTTP session over a transport that loses and duplicates, with strangers
Spec == HttpInit /\ [][HttpNext]_vars

\* an HTTP session in which the client is handed forged responses
SpecForged == HttpInit /\ [][ForgedNext]_vars

\* one queue under every interleaving of its three operations
SpecQueue == QueueInit /\ [][QueueNext]_vars

(***************************************************************************)
(* Properties of simulate                                                  *)
(***************************************************************************)

\* states.rs ContribState, in the order Contributor::run passes through it
ContribOrder == <<"Step1", "Step1a", "Step2", "Step3", "Step4", "Step5", "Step6", "Done">>

\* states.rs EvalState, in the order Evaluator::run passes through it, up to Step8
EvalOrder == <<"Step1", "Step2", "Step2a", "Step3", "Step4", "Step5", "Step6", "Step8">>

IsPrefix(s, t) == Len(s) <= Len(t) /\ \A i \in 1..Len(s) : s[i] = t[i]

PlainOutput == plain_eval(simArgs.circuit, simArgs.input_contributor, simArgs.input_evaluator)

ValidArgs ==
    /\ validate(simArgs.circuit) = "Ok"
    /\ validate_contributor_input(simArgs.circuit, simArgs.input_contributor) = "Ok"
    /\ validate_evaluator_input(simArgs.circuit, simArgs.input_evaluator) = "Ok"

\* C1: for every valid circuit and every pair of inputs of the right lengths,
\* an honest run of simulate returns Ok(out), and out[j] is the value of
\* output gate j under gate-by-gate evaluation of the circuit in the clear.
C1_SimulateEqualsPlainEval ==
    (simPc = "done" /\ ValidArgs) => simResult = [err |-> "Ok", output |-> PlainOutput]

\* a finished run of (a ^ b, a & b) on a = 1, b = 0 that returned [1, 0]
C1_Witness ==
    /\ simPc = "done"
    /\ simArgs.circuit = XorAndCircuit
    /\ simArgs.input_contributor[0] /\ ~simArgs.input_evaluator[0]
    /\ simResult.err = "Ok"
    /\ simResult.output[0] /\ ~simResult.output[1]

\* C2: if one share handed to the peer is altered in one bit, the run ends
\* with MacError or LeakyAndNotEqual; the evaluator never returns Ok with an
\* output that differs from the plain evaluation on the two parties' inputs.
C2_TamperingDetected ==
    (simPc = "done" /\ tampered # NoTamper) =>
        /\ simResult.err \in {"MacError", "LeakyAndNotEqual"}
        /\ ~(simResult.err = "Ok" /\ simResult.output # PlainOutput)

\* C3: in an honest run every successful run call consumes one message,
\* advances its role by exactly one state and produces one message; the
\* Contributor passes through Step1, Step1a, Step2..Step6, Done and the
\* Evaluator through Step1, Step2, Step2a, Step3..Step6, Step8; after exactly
\* steps() = 7 run calls per side the Contributor is Done, the Evaluator is
\* in Step8 and output(final contributor message) returns the result.
C3_SevenStepMachines ==
    /\ steps = 7
    /\ IsPrefix(contribTrace, ContribOrder)
    /\ IsPrefix(evalTrace, EvalOrder)
    /\ simPc = "eval_run" =>
         /\ Len(evalTrace) = simLoops + 1
         /\ Len(contribTrace) = simLoops + 1
         /\ msg_for_eval \notin {NoMsg, EmptyMsg}
    /\ simPc = "contrib_run" =>
         /\ Len(evalTrace) = simLoops + 2
         /\ Len(contribTrace) = simLoops + 1
         /\ msg_for_contrib \notin {NoMsg, EmptyMsg}
    /\ simPc = "output" =>
         /\ simLoops = steps
         /\ contrib.step = "Done"
         /\ eval.step = "Step8"
         /\ msg_for_eval \notin {NoMsg, EmptyMsg}
    /\ (simPc = "done" /\ ValidArgs) =>
         /\ simLoops = steps
         /\ contribTrace = ContribOrder
         /\ evalTrace = EvalOrder
         /\ simResult.err = "Ok"

C3_Witness ==
    /\ simPc = "done"
    /\ simLoops = 7
    /\ contribTrace = ContribOrder
    /\ evalTrace = EvalOrder
    /\ simResult.err = "Ok"
    /\ simArgs.circuit.and_gates > 0

(***************************************************************************)
(* Properties of the HTTP session                                          *)
(***************************************************************************)

\* the offsets 0, 1, .., n - 1 in order
Upto(n) == [i \in 1..n |-> i - 1]

\* the offset after an Option<MessageId>
NextOffset(last) == IF last = None THEN 0 ELSE last[1] + 1

HttpPlainOutput == plain_eval(httpArgs.circuit, httpArgs.input_server, httpArgs.input_client)

\* the ids of a list of (message, id) pairs
Ids(messages) == [i \in DOMAIN messages |-> messages[i][2]]

\* the ids from..(to - 1) in order
IdsFrom(from, to) == [i \in 1..(to - from) |-> from + i - 1]

\* C4: a contributor step runs for a client message only if its offset is 0
\* when nothing was accepted yet, or last accepted + 1 otherwise; for every
\* other offset process_message returns UnexpectedMessageId and leaves the
\* engine as it was; so the contributor is run on the offsets 0, 1, 2, .. in
\* order, each at most once.
C4_OffsetDiscipline ==
    /\ \A i \in DOMAIN calls :
         LET in_order == calls[i].offset = NextOffset(calls[i].last_before)
         IN  /\ calls[i].ran => in_order
             /\ ~in_order => (calls[i].err = "UnexpectedMessageId" /\ calls[i].unchanged)
    /\ served = Upto(Len(served))

\* C5: when the transport loses or duplicates requests and responses (fewer
\* times than the client retries) and nobody else talks to the server, the
\* session still ends with the output of the plain evaluation.
C5_DuplicatesSurvive ==
    (client.pc = "done" /\ rogues = 0) =>
        client.result = [err |-> "Ok", output |-> HttpPlainOutput]

\* C6: once a contributor step has failed in process_message, every later
\* process_message call of that engine returns an error and queues no message.
C6_FailedStepEndsSession ==
    \A i \in DOMAIN calls :
        calls[i].failed_before => (calls[i].err # "Ok" /\ calls[i].queued = 0)

\* C7: an engine whose contributor has completed its terminal step is no
\* longer registered once the dialog request that ran the step has returned.
C7_FinishedEngineRemoved ==
    \A id \in DOMAIN registry :
        registry[id].engine.tandem # None => registry[id].engine.tandem[1].step # "Done"

\* C8: when every request is delivered and answered once, each request
\* carries exactly the client messages the server has not accepted, each
\* response exactly the server messages the client has not processed, the
\* evaluator runs steps() = 7 steps on the server messages 0..6, and on server
\* message 7, after steps() + 1 requests, the client returns the output of
\* the plain evaluation.
C8_FaultFreeSessionCompletes ==
    LET engine == registry[SessionId].engine
        accepted == NextOffset(engine.last_durably_received_client_event_offset)
        processed == NextOffset(client.last_durably_received_offset)
    IN  /\ SessionId \in DOMAIN registry
        /\ reqCount <= steps + 1
        /\ client.consumed = Upto(Len(client.consumed))
        /\ client.pc = "send" => (request = None /\ response = None /\ reqCount <= steps)
        /\ client.pc = "await" => ((request = None) # (response = None))
        /\ request # None =>
             /\ request[1].body.last_durably_received_offset =
                    client.last_durably_received_offset
             /\ Ids(request[1].body.messages) = IdsFrom(accepted, client.context.msg_counter)
             /\ request[1].body.messages = msgs_iter(client.context)
        /\ response # None =>
             /\ response[1].status = "Ok"
             /\ Ids(response[1].msgs) = IdsFrom(processed, engine.context.msg_counter)
             /\ Len(response[1].msgs) = 1
             /\ response[1].message_id = LastId(client.messages)
        /\ client.pc # "done" =>
             /\ client.steps_remaining = steps - Len(client.consumed)
             /\ client.result = NoResult
        /\ client.pc = "done" =>
             /\ client.result = [err |-> "Ok", output |-> HttpPlainOutput]
             /\ client.consumed = Upto(steps + 1)
             /\ client.steps_remaining = 0
             /\ client.evaluator.step = "Step8"
             /\ reqCount = steps + 1

\* a session of (a ^ b, a & b) on a = 1, b = 1 that ended with [0, 1]
C8_Witness ==
    /\ client.pc = "done"
    /\ httpArgs.input_server[0] /\ httpArgs.input_client[0]
    /\ client.result.err = "Ok"
    /\ ~client.result.output[0] /\ client.result.output[1]
    /\ reqCount = 8
    /\ Len(client.consumed) = 8

\* the first message of a response whose offset is not the one expected
\* after the messages before it, 0 if there is none
RECURSIVE FirstGap(_, _, _)
FirstGap(offsets, i, expected) ==
    IF i > Len(offsets) THEN 0
    ELSE IF offsets[i] # expected THEN i
    ELSE FirstGap(offsets, i + 1, expected + 1)

\* C9: the client returns MessageOffsetMismatch, without running a step on the
\* offending message, when the offset the server reports as committed is not
\* the id of the last message of the request, or when a server message's offset
\* is not one more than that of the last server message processed (0 at first);
\* so the evaluator consumes the server messages 0, 1, 2, .. in order.
C9_ClientOffsetChecks ==
    /\ client.consumed = Upto(Len(client.consumed))
    /\ handled # None =>
         LET h == handled[1]
             gap == FirstGap(h.offsets, 1, NextOffset(h.last_before))
             ran == Len(client.consumed) - Len(h.consumed_before)
         IN  /\ h.sent # h.commited =>
                  /\ client.pc = "done"
                  /\ client.result.err = "MessageOffsetMismatch"
                  /\ ran = 0
             /\ (h.sent = h.commited /\ gap > 0) =>
                  /\ client.pc = "done"
                  /\ ran < gap
                  /\ ran = gap - 1 =>
                       \/ client.result.err = "MessageOffsetMismatch"
                       \/ client.steps_remaining = 0
                       \/ client.result.err \notin {"Ok", "None"}

\* the client has run a step on server message 0 of a response and returned
\* MessageOffsetMismatch on the message after it, which repeated offset 0
C9_Witness ==
    /\ handled # None
    /\ handled[1].sent = handled[1].commited
    /\ handled[1].offsets = <<0, 0>>
    /\ client.pc = "done"
    /\ client.result.err = "MessageOffsetMismatch"
    /\ client.consumed = <<0>>

(***************************************************************************)
(* Properties of the message queue                                         *)
(***************************************************************************)

\* C10: the k-th message sent on a queue is reported by msgs_iter with id k
\* for as long as it is queued; msgs_iter yields the queued messages in send
\* order with consecutive ids, the ids of the messages sent last; no id is
\* used twice; and a second read with no send or flush in between yields the
\* same pairs.
C10_StableMessageIds ==
    LET it == msgs_iter(queue)
    IN  /\ \A i \in DOMAIN it : it[i][2] < Len(sent) /\ it[i][1] = sent[it[i][2] + 1]
        /\ Ids(it) = IdsFrom(Len(sent) - Len(it), Len(sent))
        /\ queue.msg_counter = Len(sent)
        /\ read # None => read[1] = it

\* two messages were sent, the first was flushed, and the second is read with id 1
C10_Witness ==
    /\ Len(sent) = 2
    /\ sent[1] # sent[2]
    /\ read = Some(<<<<sent[2], 1>>>>)

\* the (message, id) pairs of a list whose id is greater than o
IdsAbove(messages, o) == SelectSeq(messages, LAMBDA m : m[2] > o)

\* C11: flush_queue(o) removes exactly the queued messages whose id is at most
\* o and returns their number (0 if there is none); the other messages, their
\* order and ids and the id of the next send are unchanged, and afterwards
\* every queued id is greater than o.
C11_FlushRemovesAcknowledged ==
    \A i \in DOMAIN flushed :
        LET f == flushed[i]
            before == msgs_iter(f.before)
            after == msgs_iter(f.after)
        IN  /\ after = IdsAbove(before, f.offset)
            /\ f.removed = Len(before) - Len(after)
            /\ f.after.msg_counter = f.before.msg_counter
            /\ \A j \in DOMAIN after : after[j][2] > f.offset

\* of three queued messages with ids 1, 2, 3 flush_queue(2) removed two
C11_Witness ==
    /\ Len(sent) = 4
    /\ flushed # <<>>
    /\ LET f == flushed[Len(flushed)]
       IN  /\ Ids(msgs_iter(f.before)) = <<1, 2, 3>>
           /\ f.offset = 2
           /\ f.removed = 2
           /\ msgs_iter(queue) = <<<<sent[4], 3>>>>

\* C12: a second flush_queue(o) leaves the queue as the first left it and
\* returns 0; after flush_queue(o), flush_queue(o') with o' <= o removes
\* nothing; and flush_queue(n) after a read whose last id is n empties the
\* queue.
C12_FlushIdempotent ==
    /\ \A i \in DOMAIN flushed :
         /\ (i > 1 /\ flushed[i].offset <= flushed[i - 1].offset) =>
                (flushed[i].removed = 0 /\ flushed[i].after = flushed[i - 1].after)
         /\ (flushed[i].read # None /\ LastId(flushed[i].read[1]) = Some(flushed[i].offset)) =>
                flushed[i].after.send_q = <<>>
    /\ \A o \in 0..MaxSends, p \in 0..MaxSends :
         p <= o => flush_queue(flush_queue(queue, o).queue, p)
                     = [queue |-> flush_queue(queue, o).queue, removed |-> 0]

\* flush_queue(1) removed two messages, and a second flush_queue(1) followed
\* while a third message was still queued
C12_Witness ==
    /\ Len(flushed) = 2
    /\ flushed[1].offset = 1
    /\ flushed[1].removed = 2
    /\ flushed[2].offset = 1
    /\ flushed[2].before.send_q # <<>>

\* the roles outside simulate were set up by a successful Evaluator::new and
\* Contributor::new on a valid circuit
ApiPlainOutput == plain_eval(simArgs.circuit, simArgs.input_contributor, simArgs.input_evaluator)

\* C13: Evaluator::output returns ProtocolStillInProgress exactly when fewer
\* than 7 run calls of the evaluator have succeeded; once 7 have, whether or
\* not an 8th run call consumed the contributor's final message, output does
\* not return ProtocolStillInProgress and yields the computed output.
C13_OutputAfterProtocolEnd ==
    apiCall.op = "output" =>
        /\ (apiCall.err = "ProtocolStillInProgress") <=> (apiCall.runs < steps)
        /\ apiCall.runs >= steps =>
               simResult = [err |-> "Ok", output |-> ApiPlainOutput]

\* C14: run on a Contributor or an Evaluator in state Done returns
\* ProtocolEnded, with no new state and no outbound message, and the role is
\* gone afterwards.
C14_RunAfterDone ==
    /\ (apiCall.op \in {"run_eval", "run_contrib"} /\ apiCall.step = "Done") =>
           /\ apiCall.err = "ProtocolEnded"
           /\ apiCall.next = "None"
           /\ apiCall.msg = NoMsg
    /\ (apiCall.op = "run_eval" /\ apiCall.step = "Done") => eval = NoParty
    /\ (apiCall.op = "run_contrib" /\ apiCall.step = "Done") => contrib = NoParty
    /\ eval # NoParty => Len(evalTrace) <= steps + 2
    /\ contrib # NoParty => Len(contribTrace) <= steps + 1

\* the contributor was run in Done, after it the evaluator was run in Done
C14_Witness ==
    /\ apiCall.op = "run_eval"
    /\ apiCall.step = "Done"
    /\ contrib = NoParty
    /\ Len(contribTrace) = steps + 1
    /\ Len(evalTrace) = steps + 2

\* every operand of every Xor, And and Not gate is smaller than the gate's
\* index, there is an output, and every output index is a gate's index
WellFormed(c) ==
    /\ \A i \in DOMAIN c.gates :
         /\ c.gates[i].t \in {"Xor", "And"} => (c.gates[i].a < i /\ c.gates[i].b < i)
         /\ c.gates[i].t = "Not" => c.gates[i].a < i
    /\ VecLen(c.output_gates) > 0
    /\ \A j \in DOMAIN c.output_gates : c.output_gates[j] < VecLen(c.gates)

\* the numbers of AND gates and of gates are within the bounds
WithinSize(c) ==
    /\ Cardinality({i \in DOMAIN c.gates : c.gates[i].t = "And"}) <= MAX_AND_GATES
    /\ VecLen(c.gates) <= MAX_GATES

\* C15: validate returns Ok exactly for the well-formed circuits within the
\* size bounds (bounds included); a circuit that is not well-formed yields
\* InvalidCircuit, a well-formed one beyond a size bound
\* MaxCircuitSizeExceeded.
C15_ValidateExactly ==
    simPc = "done" /\ apiCall = NoCall /\ DOMAIN simArgs = {"circuit"} =>
        simResult.err =
            IF ~WellFormed(simArgs.circuit) THEN "InvalidCircuit"
            ELSE IF ~WithinSize(simArgs.circuit) THEN "MaxCircuitSizeExceeded"
            ELSE "Ok"

\* the lengths of the two inputs are the numbers of input gates
RightSized ==
    /\ VecLen(simArgs.input_contributor) = simArgs.circuit.contrib_inputs
    /\ VecLen(simArgs.input_evaluator) = simArgs.circuit.eval_inputs

\* a constructor has returned
NewReturned == apiCall.op \in {"new_eval", "new_contrib"}

\* simulate has returned
SimReturned == simPc = "done" /\ apiCall = NoCall

\* C16: for a circuit that fails validation and inputs of the right lengths,
\* Evaluator::new and Contributor::new return the validation error, leave no
\* role state and no message, and simulate returns the same error.
C16_InvalidCircuitRejectedAtNew ==
    (validate(simArgs.circuit) # "Ok" /\ RightSized) =>
        /\ NewReturned =>
               /\ apiCall.err = validate(simArgs.circuit)
               /\ apiCall.next = "None"
               /\ apiCall.msg = NoMsg
               /\ eval = NoParty
               /\ contrib = NoParty
        /\ SimReturned => simResult.err = validate(simArgs.circuit)

\* C17: Contributor::new returns InsufficientInput exactly when the length of
\* its input differs from the number of InContrib gates, Evaluator::new
\* exactly when the length of its input differs from the number of InEval
\* gates, leaving no state and no message; simulate returns InsufficientInput
\* whenever either length is wrong.
C17_InsufficientInputExactly ==
    LET wrong_contrib ==
            VecLen(simArgs.input_contributor) # simArgs.circuit.contrib_inputs
        wrong_eval == VecLen(simArgs.input_evaluator) # simArgs.circuit.eval_inputs
    IN  /\ apiCall.op = "new_contrib" =>
               /\ (apiCall.err = "InsufficientInput") <=> wrong_contrib
               /\ wrong_contrib =>
                      (apiCall.next = "None" /\ apiCall.msg = NoMsg /\ contrib = NoParty)
        /\ apiCall.op = "new_eval" =>
               /\ (apiCall.err = "InsufficientInput") <=> wrong_eval
               /\ wrong_eval =>
                      (apiCall.next = "None" /\ apiCall.msg = NoMsg /\ eval = NoParty)
        /\ (SimReturned /\ (wrong_contrib \/ wrong_eval)) =>
               simResult.err = "InsufficientInput"

\* Contributor::new returned InsufficientInput for an input one bit too long,
\* on a circuit that passes validation
C17_Witness ==
    /\ apiCall.op = "new_contrib"
    /\ apiCall.err = "InsufficientInput"
    /\ validate(simArgs.circuit) = "Ok"
    /\ VecLen(simArgs.input_contributor) = simArgs.circuit.contrib_inputs + 1
    /\ simArgs.circuit.contrib_inputs > 0

\* C18: the bytes blake3_hash feeds to the hasher are the same for two
\* circuits exactly when the circuits have equal gate lists and equal
\* output lists.
C18_HashInputInjective ==
    apiCall.op = "blake3_hash" =>
        ((apiCall.first = apiCall.second) <=>
            (/\ simArgs.circuit.gates = simArgs.other.gates
             /\ simArgs.circuit.output_gates = simArgs.other.output_gates))

\* create_session has answered a request whose handler selected a circuit
Selected == response # None /\ response[1].selected # None

\* C19: create_session registers an engine only when the hash in the request
\* is the hash of the circuit the handler selected; on a mismatch it returns
\* CircuitHashMismatch, constructs no contributor and leaves the registry as
\* it was; the engine of a created session runs the circuit of the client
\* that asked for it.
C19_SessionOnAgreedCircuit ==
    Selected =>
        LET res == response[1]
            req == request[1]
            agreed == blake3_hash_input(res.selected[1]) = req.circuit_hash
        IN  /\ registry # res.registry => agreed
            /\ ~agreed =>
                   /\ res.err = "CircuitHashMismatch"
                   /\ ~res.constructed
                   /\ registry = res.registry
            /\ res.err = "Ok" =>
                   registry[res.engine_id[1]].engine.tandem[1].circuit = req.circuit

\* the bucket size for n AND gates
TableBucketSize(n) == IF n >= 280000 THEN 3 ELSE IF n >= 3100 THEN 4 ELSE 5

\* the blocks of authenticated bits for a circuit and a bucket size
BlocksFor(c, size) ==
    LET triples == ((c.and_gates * 3 * size + TRIPLES - 1) \div TRIPLES) * TRIPLES
        total == c.and_gates + c.eval_inputs + c.contrib_inputs + triples
    IN  (total + BLOCK_SIZE - 1) \div BLOCK_SIZE

\* the role sizes its OT extension and forms its buckets by the table
SizedByTable(party) ==
    LET size == TableBucketSize(simArgs.circuit.and_gates)
    IN  party.step \notin {"None", "Failed"} =>
            /\ ("blocks" \in DOMAIN party.st /\ party.st.blocks \in Nat) =>
                   party.st.blocks = BlocksFor(simArgs.circuit, size)
            /\ "bucket_size" \in DOMAIN party.st => party.st.bucket_size = size

\* a message that carries the bits of the buckets carries one bit for every
\* place of every bucket of the table's size
BucketsByTable(msg) ==
    IsPair(msg) =>
        \A m \in {msg.m1, msg.m2} :
            m.ty = "BoolsAndMacs" =>
                VecLen(m.bits) =
                    simArgs.circuit.and_gates * TableBucketSize(simArgs.circuit.and_gates)

\* C20: the bucket size is 3 from 280000 AND gates on, 4 from 3100 AND gates
\* up to 279999, and 5 below; the OT extension is sized by it and the
\* buckets are formed by it, in both roles.
C20_BucketSizeTable ==
    /\ apiCall.op = "bucket_size" =>
           /\ apiCall.size = TableBucketSize(simArgs.circuit.and_gates)
           /\ apiCall.blocks = BlocksFor(simArgs.circuit, apiCall.size)
    /\ apiCall = NoCall =>
           /\ SizedByTable(eval)
           /\ SizedByTable(contrib)
           /\ BucketsByTable(msg_for_eval)
           /\ BucketsByTable(msg_for_contrib)

\* bucket_size was applied to a circuit of exactly 3100 AND gates
C20_Witness ==
    /\ apiCall.op = "bucket_size"
    /\ simArgs.circuit.and_gates = 3100
    /\ apiCall.size = 4

TextLines == SelectSeq(simArgs.text, LAMBDA l : l # <<>>)

\* the token is an integer that fits a wire id
IsWireId(tok) == tok.k = "num" /\ tok.v < U32Mod

\* gate line j of the text breaks the format: too few fields, a wire that is
\* not an integer that fits, an unknown operator, or an input wire that
\* neither is an input of the circuit nor the output of an earlier line
BadGateLine(lines, j, inputs) ==
    LET line == lines[j]
        ins == IF Len(line) >= 1 /\ line[1] = Num(1) THEN 1 ELSE 2
        earlier == (0..(inputs - 1))
                     \cup {lines[h][Len(lines[h]) - 1].v : h \in 4..(j - 1)}
    IN  \/ Len(line) < ins + 4
        \/ \E i \in 3..(ins + 3) : ~IsWireId(line[i])
        \/ line[Len(line)] \notin {Word("XOR"), Word("AND"), Word("INV")}
        \/ \E i \in 3..(ins + 2) : line[i].v \notin earlier

\* the text is malformed as the format has it
Malformed ==
    LET lines == TextLines
    IN  \/ Len(lines) < 3
        \/ Len(lines[2]) < 3 \/ ~IsWireId(lines[2][2]) \/ ~IsWireId(lines[2][3])
        \/ Len(lines[3]) < 2 \/ ~IsWireId(lines[3][2])
        \/ \E j \in 4..Len(lines) : BadGateLine(lines, j, lines[2][2].v + lines[2][3].v)

\* C22: from_bristol_format never panics, and returns InvalidCircuit for a
\* text that is malformed: a missing line, a token that is no integer or
\* overflows where a number is expected, an unknown operator, a wire no
\* earlier line defines, or a gate line with too few fields.
C22_BristolMalformedIsInvalidCircuit ==
    apiCall.op = "from_bristol_format" =>
        /\ apiCall.err # "Panic"
        /\ Malformed => apiCall.err = "InvalidCircuit"

\* the entries of the contributor's answer for gate i
Answered(i) == {k \in DOMAIN msg_for_eval.inputs : msg_for_eval.inputs[k].index = i}

\* the contributor has answered the evaluator's forged last message
AnsweredForged ==
    /\ tampered.kind = "inputs"
    /\ contrib.step = "Done"
    /\ msg_for_eval.ty = "InputsAndShares"

\* C23: the contributor's answer to the last message holds at most one label
\* for each evaluator-input wire, and at most eval_inputs labels of such
\* wires in all; a message that names such a wire twice is not answered.
C23_OneLabelPerEvalInput ==
    AnsweredForged =>
        LET gates == simArgs.circuit.gates
            eval_wires == {i \in DOMAIN gates : gates[i].t = "InEval"}
        IN  /\ \A i \in eval_wires : Cardinality(Answered(i)) <= 1
            /\ Cardinality(UNION {Answered(i) : i \in eval_wires})
                   <= simArgs.circuit.eval_inputs
            /\ \A j, k \in DOMAIN msg_for_contrib.inputs :
                   msg_for_contrib.inputs[j].index = msg_for_contrib.inputs[k].index => j = k


(***************************************************************************)
(* Authenticated bits after the OT extension                               *)
(***************************************************************************)

\* the role holds the authenticated bits cut by ot_ands1
HoldsABits(p) ==
    /\ p.step # "None"
    /\ {"wire_abits", "and_triples", "delta"} \subseteq DOMAIN p.st

\* every bit of mine carries the MAC under the key and the delta of the peer
MacRelation(mine, theirs, their_delta) ==
    /\ DOMAIN mine = DOMAIN theirs
    /\ \A n \in DOMAIN mine :
          PartialBitShare_verify(mine[n], theirs[n].key, their_delta)

\* both roles have just run ot_ands1: the contributor in Step1a, the
\* evaluator in Step2a
AfterOtExtension ==
    /\ simPc = "contrib_run"
    /\ eval.step = "Step3"
    /\ contrib.step = "Step2"

\* C24: after the OT-extension steps of an honest run every authenticated
\* bit of either role, wire-mask bit and triple bit alike, satisfies
\* mac = key of the peer XOR (bit ? delta of the peer : 0)
C24_ABitsAuthenticated ==
    AfterOtExtension =>
        /\ HoldsABits(eval) /\ HoldsABits(contrib)
        /\ MacRelation(eval.st.wire_abits, contrib.st.wire_abits, contrib.st.delta)
        /\ MacRelation(contrib.st.wire_abits, eval.st.wire_abits, eval.st.delta)
        /\ MacRelation(eval.st.and_triples, contrib.st.and_triples, contrib.st.delta)
        /\ MacRelation(contrib.st.and_triples, eval.st.and_triples, eval.st.delta)

\* both roles hold bits of both values with nonzero MACs, for a circuit
\* with AND gates
C24_Witness ==
    /\ AfterOtExtension
    /\ simArgs.circuit.and_gates > 0
    /\ VecLen(eval.st.and_triples) > 0
    /\ \E n, m \in DOMAIN eval.st.wire_abits :
          eval.st.wire_abits[n].bit /\ ~contrib.st.wire_abits[m].bit
    /\ \E n \in DOMAIN contrib.st.and_triples : contrib.st.and_triples[n].bit
    /\ eval.st.delta # 0
    /\ contrib.st.delta # 0


(***************************************************************************)
(* Bucketing of the leaky triples                                          *)
(***************************************************************************)

\* the shares of the two roles hold triples with (x1 ^ x2) & (y1 ^ y2) = z1 ^ z2
AndRelation(mine, theirs) ==
    /\ DOMAIN mine = DOMAIN theirs
    /\ \A t \in 0..((VecLen(mine) \div 3) - 1) :
          ((mine[3 * t].bit # theirs[3 * t].bit)
              /\ (mine[3 * t + 1].bit # theirs[3 * t + 1].bit))
          <=> (mine[3 * t + 2].bit # theirs[3 * t + 2].bit)

\* the triples of the two roles satisfy the AND relation and the MAC relation
\* in both directions
TriplesValid(e_triples, e_delta, c_triples, c_delta) ==
    /\ AndRelation(e_triples, c_triples)
    /\ MacRelation(e_triples, c_triples, c_delta)
    /\ MacRelation(c_triples, e_triples, e_delta)

\* the contributor has started its bucketing (ot_ands6 in Step4) and its
\* message is about to reach the evaluator in Step5
EnteringBucketing ==
    /\ simPc = "eval_run"
    /\ eval.step = "Step5"
    /\ contrib.step = "Step5"
    /\ IsPair(msg_for_eval)

\* the bucketing state of the evaluator and its message, from ot_ands6
EvalBucketing == ot_ands6(eval.st, msg_for_eval.m1, simArgs.circuit)

\* C25: if every leaky triple entering bucketing satisfies the AND relation
\* and the MAC relation, update_triples yields on both roles exactly
\* L = and_gates combined triples, in the same order, each satisfying the AND
\* relation and the MAC relation on x, y and z
C25_BucketingKeepsTriples ==
    (/\ EnteringBucketing
     /\ EvalBucketing.err = "Ok"
     /\ TriplesValid(EvalBucketing.st.and_triples, eval.st.delta,
                     contrib.st.and_triples, contrib.st.delta))
    => LET e == update_triples(EvalBucketing.st, msg_for_eval.m2)
           c == update_triples(contrib.st, EvalBucketing.msg)
       IN  /\ e.err = "Ok"
           /\ c.err = "Ok"
           /\ VecLen(e.st.and_triples) = 3 * simArgs.circuit.and_gates
           /\ VecLen(c.st.and_triples) = 3 * simArgs.circuit.and_gates
           /\ TriplesValid(e.st.and_triples, eval.st.delta,
                           c.st.and_triples, contrib.st.delta)

\* valid leaky triples enter the bucketing of two AND gates, some pair of y
\* values differs inside a bucket, and a combined triple has x = y = z = 1
C25_Witness ==
    /\ EnteringBucketing
    /\ EvalBucketing.err = "Ok"
    /\ TriplesValid(EvalBucketing.st.and_triples, eval.st.delta,
                    contrib.st.and_triples, contrib.st.delta)
    /\ simArgs.circuit.and_gates = 2
    /\ contrib.st.bucket_size > 1
    /\ \E n \in DOMAIN contrib.st.bucketing_bits :
          contrib.st.bucketing_bits[n] # EvalBucketing.st.bucketing_bits[n]
    /\ LET e == update_triples(EvalBucketing.st, msg_for_eval.m2).st.and_triples
           c == update_triples(contrib.st, EvalBucketing.msg).st.and_triples
       IN  \E t \in 0..1 : \A k \in 0..2 : e[3 * t + k].bit # c[3 * t + k].bit


(***************************************************************************)
(* Evaluation of the AND gates                                             *)
(***************************************************************************)

\* the evaluator holds the garbled tables and the contributor is about to
\* answer with the input labels
BeforeEvaluation ==
    /\ simPc = "contrib_run"
    /\ eval.step = "Step8"
    /\ contrib.step = "Step6"

\* the last message of the contributor
InputLabels ==
    InputProcContrib_run(contrib.st, msg_for_contrib, simArgs.circuit, contrib.input)

\* the wires of the evaluator after the loading of the labels
LoadedWires ==
    LoadInputs(simArgs.circuit, InputLabels.msg.inputs, 0, eval.st.wires,
               eval.st.pending_input)

\* the wires of the evaluator after the evaluation loop
EvaluatedWires == EvalGates(simArgs.circuit, eval.st.delta, 0, LoadedWires.wires, TRUE)

\* the value of wire g: its masked value without the shares of its mask
Unmasked(wires, g) ==
    (wires[g].masked_value # eval.st.masks[g].bit.bit) # contrib.st.masks[g].bit.bit

\* C26: for every AND gate the row recovered by the evaluator passes the MAC
\* check, the unmasked output is the AND of the unmasked values of the two
\* input wires, and the label obtained is the label of the contributor for
\* the masked output, label_0 XOR masked * delta
C26_AndGateEvaluation ==
    BeforeEvaluation =>
        /\ InputLabels.err = "Ok"
        /\ LoadedWires.err = "Ok"
        /\ EvaluatedWires.mac_checks_success
        /\ \A g \in DOMAIN simArgs.circuit.gates :
              simArgs.circuit.gates[g].t = "And" =>
                  LET gate == simArgs.circuit.gates[g]
                      w == EvaluatedWires.wires
                  IN  /\ Unmasked(w, g) <=> (Unmasked(w, gate.a) /\ Unmasked(w, gate.b))
                      /\ w[g].label = WireMask_label(contrib.st.masks[g], w[g].masked_value,
                                                     contrib.st.delta)

\* an AND gate is evaluated on two true values that come from different
\* wires, in the last row of its table
C26_Witness ==
    /\ BeforeEvaluation
    /\ InputLabels.err = "Ok"
    /\ \E g \in DOMAIN simArgs.circuit.gates :
          LET gate == simArgs.circuit.gates[g]
              w == EvaluatedWires.wires
          IN  /\ gate.t = "And"
              /\ gate.a # gate.b
              /\ Unmasked(w, gate.a) /\ Unmasked(w, gate.b) /\ Unmasked(w, g)
              /\ w[gate.a].masked_value /\ w[gate.b].masked_value


(***************************************************************************)
(* The commit-open equality check                                          *)
(***************************************************************************)

\* for every triple the opened (r, salt) hashes to the commitment received
\* earlier and the opened r is the r' computed locally
OpeningsMatch(state, r_and_rand) ==
    \A t \in DOMAIN state.r_prime :
        /\ t \in DOMAIN r_and_rand
        /\ t \in DOMAIN state.r_and_rand_hash
        /\ state.r_and_rand_hash[t] = hash_keys(r_and_rand[t][0], r_and_rand[t][1])
        /\ r_and_rand[t][0] = state.r_prime[t]

\* check_hash accepts the openings that match and answers LeakyAndNotEqual to
\* the others
VerdictByOpenings(state, m) ==
    check_hash(state, m.v, m.pairs)
        = IF OpeningsMatch(state, m.pairs) THEN "Ok" ELSE "LeakyAndNotEqual"

\* the evaluator is about to run ot_ands6 on the first half of its message
EvalChecksOpenings ==
    /\ simPc = "eval_run"
    /\ eval.step = "Step5"
    /\ IsPair(msg_for_eval)
    /\ msg_for_eval.m1.ty = "MacVecAndPairs"

\* the contributor is about to run ot_ands5 and then ot_ands6 on the second
\* half of its message
ContribChecksOpenings ==
    /\ simPc = "contrib_run"
    /\ contrib.step = "Step4"
    /\ IsPair(msg_for_contrib)
    /\ msg_for_contrib.m2.ty = "MacVecAndPairs"
    /\ ot_ands5(contrib.st, msg_for_contrib.m1).err = "Ok"

\* C27: the commit-open equality check accepts exactly when, for every
\* triple, the opened (r, salt) hashes to the commitment received earlier and
\* the opened r equals the local r'; otherwise it returns LeakyAndNotEqual
C27_EqualityCheckExact ==
    /\ EvalChecksOpenings => VerdictByOpenings(eval.st, msg_for_eval.m1)
    /\ ContribChecksOpenings =>
           VerdictByOpenings(ot_ands5(contrib.st, msg_for_contrib.m1).st, msg_for_contrib.m2)


(***************************************************************************)
(* The checking step of the bucketing                                      *)
(***************************************************************************)

\* the revealed pairs have the length of the local bucketing bits
RevealedWellFormed(self, m) ==
    /\ m.ty = "BoolsAndMacs"
    /\ VecLen(m.bits) = VecLen(self.bucketing_bits)
    /\ VecLen(m.macs) = VecLen(self.bucketing_bits)

\* the positions of the revealed pairs: the L * (B - 1) positions after the
\* first one of each bucket
RevealedPositions(self) ==
    {n \in 0..(self.length * self.bucket_size - 1) : n % self.bucket_size # 0}

\* the revealed pair at position n fails verification against the local key
\* of y_0 XOR y_j and the local delta
PairFails(self, m, n) ==
    LET lhs == self.permutation[(n \div self.bucket_size) * self.bucket_size]
        rhs == self.permutation[n]
        d == BitShare_xor(self.and_triples[lhs * 3 + 1], self.and_triples[rhs * 3 + 1])
    IN  ~PartialBitShare_verify([bit |-> m.bits[n], mac |-> m.macs[n]], d.key, self.delta)

\* the evaluator is about to run ot_ands6 and finish on a message whose
\* second half holds a revealed pair that fails
EvalSeesBadPair ==
    /\ EnteringBucketing
    /\ EvalBucketing.err = "Ok"
    /\ RevealedWellFormed(EvalBucketing.st, msg_for_eval.m2)
    /\ \E n \in RevealedPositions(EvalBucketing.st) :
          PairFails(EvalBucketing.st, msg_for_eval.m2, n)

\* the contributor is about to run finish on a message whose first half holds
\* a revealed pair that fails
ContribSeesBadPair ==
    /\ simPc = "contrib_run"
    /\ contrib.step = "Step5"
    /\ IsPair(msg_for_contrib)
    /\ RevealedWellFormed(contrib.st, msg_for_contrib.m1)
    /\ \E n \in RevealedPositions(contrib.st) : PairFails(contrib.st, msg_for_contrib.m1, n)

\* C28: update_triples returns MacError whenever at least one of the
\* L * (B - 1) revealed pairs fails verification, and then the step yields no
\* combined triples and no further message
C28_BadPairIsMacError ==
    /\ EvalSeesBadPair =>
           /\ update_triples(EvalBucketing.st, msg_for_eval.m2) = Fail("MacError")
           /\ finish(EvalBucketing.st, msg_for_eval.m2, simArgs.circuit) = Fail("MacError")
           /\ Evaluator_run(eval, msg_for_eval) = Fail("MacError")
    /\ ContribSeesBadPair =>
           /\ update_triples(contrib.st, msg_for_contrib.m1) = Fail("MacError")
           /\ finish(contrib.st, msg_for_contrib.m1, simArgs.circuit) = Fail("MacError")
           /\ Contributor_run(contrib, msg_for_contrib) = Fail("MacError")

\* a revealed bit was inverted on the way to the evaluator
C28_Witness ==
    /\ EvalSeesBadPair
    /\ tampered # NoTamper
    /\ tampered.to = "Evaluator"
    /\ tampered.ty = "BoolsAndMacs"
    /\ tampered.site.f = "bits"

\* a revealed MAC was altered on the way to the contributor
C28_WitnessContrib ==
    /\ ContribSeesBadPair
    /\ tampered # NoTamper
    /\ tampered.to = "Contributor"
    /\ tampered.ty = "BoolsAndMacs"
    /\ tampered.site.f = "macs"


(***************************************************************************)
(* The mask shares read by the evaluator in Step6                          *)
(***************************************************************************)

\* the evaluator is about to run ot_ands8_eval on a message in which the
\* share of the mask of one of its input wires fails verification
EvalSeesBadShare ==
    /\ simPc = "eval_run"
    /\ eval.step = "Step6"
    /\ IsPair(msg_for_eval)
    /\ msg_for_eval.m1.ty = "BoolsAndBools"
    /\ msg_for_eval.m2.ty = "TablesAndShares"
    /\ \E k \in DOMAIN msg_for_eval.m2.shares :
          LET sh == msg_for_eval.m2.shares[k]
          IN  /\ k < VecLen(eval.input)
              /\ sh.index < VecLen(simArgs.circuit.gates)
              /\ simArgs.circuit.gates[sh.index].t = "InEval"
              /\ ~PartialBitShare_verify(sh, eval.st.masks[sh.index].bit.key, eval.st.delta)

\* C29: when a mask share received by the evaluator in its step 6 fails MAC
\* verification, the step returns Err(MacError) to the caller, with no
\* message for the contributor
C29_BadMaskShareIsMacError ==
    EvalSeesBadShare => Evaluator_run(eval, msg_for_eval) = Fail("MacError")


(***************************************************************************)
(* Malformed messages of the input processing                              *)
(***************************************************************************)

\* a call that ended with an error value handed to the caller
ReturnsError(err) == err \notin {"Ok", "Panic"}

\* the last message of the evaluator does not hold one entry for each of its
\* input wires, or holds an entry for a gate that is no evaluator input
ContribSeesMalformedInputs ==
    /\ simPc = "contrib_run"
    /\ contrib.step = "Step6"
    /\ msg_for_contrib.ty = "SharesAndInputs"
    /\ \/ VecLen(msg_for_contrib.inputs) # simArgs.circuit.eval_inputs
       \/ \E k \in DOMAIN msg_for_contrib.inputs :
             \/ msg_for_contrib.inputs[k].index >= VecLen(simArgs.circuit.gates)
             \/ simArgs.circuit.gates[msg_for_contrib.inputs[k].index].t # "InEval"

\* the last message of the contributor does not hold one label for each
\* input wire of the circuit
EvalSeesMalformedInputs ==
    /\ simPc = "output"
    /\ eval.step = "Step8"
    /\ msg_for_eval.ty = "InputsAndShares"
    /\ VecLen(msg_for_eval.inputs)
           # simArgs.circuit.eval_inputs + simArgs.circuit.contrib_inputs

\* C30: every inbound message that is malformed for the current step makes
\* run and output return an error to the caller on both roles: no step
\* aborts the process and none proceeds on such a message
C30_MalformedMessageIsError ==
    /\ ContribSeesMalformedInputs =>
           ReturnsError(Contributor_run(contrib, msg_for_contrib).err)
    /\ EvalSeesMalformedInputs =>
           ReturnsError(Evaluator_output(eval, msg_for_eval).err)

(***************************************************************************)
(* The bucketing permutation                                               *)
(***************************************************************************)

\* the triples of bucket i under the permutation of a party
BucketOf(st, i) ==
    {st.permutation[i * st.bucket_size + j] : j \in 0..(st.bucket_size - 1)}

\* the permutation of a party is a bijection on 0..n-1 that gives every
\* bucket exactly B triples and every triple exactly one bucket
Bijective(st) ==
    LET n == st.length * st.bucket_size
    IN  /\ DOMAIN st.permutation = 0..(n - 1)
        /\ {st.permutation[k] : k \in 0..(n - 1)} = 0..(n - 1)
        /\ \A i \in 0..(st.length - 1) : Cardinality(BucketOf(st, i)) = st.bucket_size
        /\ \A i, j \in 0..(st.length - 1) :
              i # j => BucketOf(st, i) \cap BucketOf(st, j) = {}

\* C31: for every coin and every pool size n = L * B the bucketing
\* permutation is a bijection on 0..n-1, and two parties holding the same
\* coin derive the identical permutation and identical buckets
C31_PermutationBijective ==
    /\ contrib.step = "Bucketing" => Bijective(contrib.st)
    /\ eval.step = "Bucketing" => Bijective(eval.st)
    /\ (contrib.step = "Bucketing" /\ eval.step = "Bucketing") =>
           /\ contrib.st.permutation = eval.st.permutation
           /\ \A i \in 0..(simArgs.length - 1) : BucketOf(contrib.st, i) = BucketOf(eval.st, i)

\* both parties hold a permutation of a pool of several buckets that moves
\* triples between buckets
C31_Witness ==
    /\ contrib.step = "Bucketing"
    /\ eval.step = "Bucketing"
    /\ simArgs.length >= 2
    /\ \E k \in DOMAIN eval.st.permutation :
          eval.st.permutation[k] \div simArgs.bucket_size # k \div simArgs.bucket_size

(***************************************************************************)
(* The shares of the leaky AND                                             *)
(***************************************************************************)

\* C32: the shares the two parties derive from the hashes of their peer
\* satisfy share_A XOR share_B = (x_A AND y_B) XOR (x_B AND y_A) at every bit
\* position, for every choice of the random masks
C32_LeakyAndShares ==
    apiCall.op = "leaky_and" =>
        Xor(apiCall.shares_a, apiCall.shares_b)
            = Xor(BitAnd(simArgs.bits_a, simArgs.y_b), BitAnd(simArgs.bits_b, simArgs.y_a))

\* both products are set in some position and the random masks differ
C32_Witness ==
    /\ apiCall.op = "leaky_and"
    /\ BitAnd(simArgs.bits_a, simArgs.y_b) # 0
    /\ BitAnd(simArgs.bits_b, simArgs.y_a) # 0
    /\ Xor(apiCall.shares_a, apiCall.shares_b) # 0
    /\ simArgs.random_a # simArgs.random_b
    /\ LeakyDelta(simArgs.seed_a) # 0
    /\ LeakyDelta(simArgs.seed_b) # 0

(***************************************************************************)
(* Coin tossing                                                            *)
(***************************************************************************)

\* both parties have run cointossing::finish
Tossed == eval.step = "Tossed" /\ contrib.step = "Tossed"

C33_WitnessHonest ==
    /\ Tossed
    /\ simArgs.committed = simArgs.coin_b
    /\ simArgs.revealed = simArgs.coin_b
    /\ eval.st.err = "Ok"
    /\ eval.st.coin = contrib.st.coin
    /\ eval.st.coin \notin {simArgs.coin_a, simArgs.coin_b}

(***************************************************************************)
(* The number of OT-extension blocks                                       *)
(***************************************************************************)

\* a divided by b, rounded up
CeilDiv(a, b) == (a + b - 1) \div b

\* ceil((wire_bits + 3 * B * and_gates) / K), rounded up to a multiple of 3
BlocksByFormula(c, size) ==
    LET wire_bits == c.and_gates + c.contrib_inputs + c.eval_inputs
    IN  CeilDiv(CeilDiv(wire_bits + 3 * size * c.and_gates, K), 3) * 3

\* C34: the number of OT-extension blocks both roles compute equals
\* ceil((wire_bits + 3 * B * and_gates) / K) rounded up to the next multiple
\* of 3, with wire_bits = and_gates + contributor inputs + evaluator inputs
C34_BlockCountFormula ==
    apiCall.op = "bucket_size" =>
        apiCall.blocks = BlocksByFormula(simArgs.circuit, apiCall.size)

(***************************************************************************)
(* The triple region of the authenticated bits                             *)
(***************************************************************************)

\* the split leaves whole and enough triples, apart from the wire bits
SplitSound(split, circuit) ==
    /\ split.abits_blocks * BLOCK_SIZE
           >= circuit.and_gates + circuit.eval_inputs + circuit.contrib_inputs
    /\ split.asserted
    /\ split.triples_len >= 3 * bucket_size(circuit) * circuit.and_gates
    /\ split.triples_len % (3 * BLOCK_SIZE) = 0
    /\ split.wire_abits_start >= split.triples_len
    /\ split.wire_abits_end <= split.abits_len

\* C40: the block count of init_ot1 minus ceil(wire_abits / BLOCK_SIZE) is a
\* multiple of 3, so that the assertion of ot_ands1 never fails; the triple
\* region holds at least 3 * B * and_gates bits in three equal parts of whole
\* blocks and lies apart from the bits taken for the wire masks
C40_TripleRegion ==
    /\ apiCall.op = "bucket_size" =>
           SplitSound(ot_ands1_split(apiCall.blocks, simArgs.circuit), simArgs.circuit)
    /\ AfterOtExtension =>
           \A p \in {eval, contrib} :
               /\ HoldsABits(p)
               /\ VecLen(p.st.and_triples)
                      >= 3 * bucket_size(simArgs.circuit) * simArgs.circuit.and_gates
               /\ VecLen(p.st.and_triples) % (3 * BLOCK_SIZE) = 0
               /\ VecLen(p.st.wire_abits)
                      = simArgs.circuit.and_gates + simArgs.circuit.eval_inputs
                          + simArgs.circuit.contrib_inputs

\* a circuit whose triple bits and wire bits both need rounding up
C40_Witness ==
    /\ apiCall.op = "bucket_size"
    /\ simArgs.circuit.and_gates > 0
    /\ (3 * apiCall.size * simArgs.circuit.and_gates) % TRIPLES # 0
    /\ (simArgs.circuit.and_gates + simArgs.circuit.eval_inputs
           + simArgs.circuit.contrib_inputs) % BLOCK_SIZE # 0
    /\ ot_ands1_split(apiCall.blocks, simArgs.circuit).triples_len
           > 3 * apiCall.size * simArgs.circuit.and_gates

\* both roles of a run hold their triples and wire bits after ot_ands1
C40_WitnessRun ==
    /\ AfterOtExtension
    /\ HoldsABits(eval)
    /\ HoldsABits(contrib)
    /\ VecLen(eval.st.and_triples) > 0

(***************************************************************************)
(* Errors of process_message                                               *)
(***************************************************************************)

\* C38: whenever process_message returns an error, for a wrong offset or for
\* a failed contributor step, the last accepted client offset of the engine
\* is what it was before the call
C38_ErrorKeepsOffset ==
    \A i \in DOMAIN calls :
        calls[i].err # "Ok" => calls[i].last_after = calls[i].last_before

\* C39: process_message never computes offset - 1 for offset = 0, also not
\* for a redelivered message 0 after a message was accepted: the call neither
\* aborts nor wraps, and returns Ok or UnexpectedMessageId
C39_NoOffsetUnderflow ==
    \A i \in DOMAIN calls :
        calls[i].offset = 0 =>
            /\ ~SubtractsFromZero(calls[i].last_before, calls[i].offset)
            /\ calls[i].err # "Panic"
            /\ calls[i].last_before # None => calls[i].err = "UnexpectedMessageId"

(***************************************************************************)
(* Acknowledgements                                                        *)
(***************************************************************************)

\* the messages numbered processed .. posted - 1 are all among the pairs
Holds(pairs, processed, posted) ==
    \A id \in processed..(posted - 1) : \E k \in DOMAIN pairs : pairs[k][2] = id

\* C37: under lost requests, lost responses and requests delivered twice, a
\* message leaves the queue of its sender only after the other role has run
\* the step that consumes it: every client message the contributor has not
\* been run on is queued at the client and part of the request in flight, and
\* every server message the evaluator has not been run on is queued at the
\* server and part of the response in flight
C37_NoEarlyAcknowledgement ==
    (rogues = 0 /\ SessionId \in DOMAIN registry) =>
        LET engine == registry[SessionId].engine
            by_server == Len(served)
            by_client == NextOffset(client.last_durably_received_offset)
        IN  /\ \A i \in DOMAIN calls : calls[i].ran => calls[i].err = "Ok"
            /\ Holds(msgs_iter(client.context), by_server, client.context.msg_counter)
            /\ Holds(msgs_iter(engine.context), by_client, engine.context.msg_counter)
            /\ request # None =>
                   Holds(request[1].body.messages, by_server, client.context.msg_counter)
            /\ (response # None /\ response[1].status = "Ok") =>
                   Holds(response[1].msgs, by_client, engine.context.msg_counter)

\* after a fault of the transport both queues have dropped acknowledged
\* messages, and a response carries a server message the evaluator has yet to
\* run on
C37_Witness ==
    /\ rogues = 0
    /\ faults > 0
    /\ SessionId \in DOMAIN registry
    /\ client.context.msg_counter > Len(client.context.send_q)
    /\ registry[SessionId].engine.context.msg_counter
           > Len(registry[SessionId].engine.context.send_q)
    /\ response # None
    /\ response[1].status = "Ok"
    /\ response[1].msgs # <<>>

(***************************************************************************)
(* Dialog requests to one engine                                           *)
(***************************************************************************)

\* the handler is between engine.lock() and the drop of the guard
HoldsGuard(t) == t \in DOMAIN threads /\ threads[t].pc \in {"flush", "process"}

\* the registry create_session left
CreatedRegistry ==
    insert_engine(EmptyRegistry, SessionId,
                  Locked(EngineRef_new(httpArgs.seed_server, httpArgs.circuit,
                                       httpArgs.input_server).engine, FALSE))

\* the handler did what dialog does, in one piece, to the engine it found
AsOnePiece(h) ==
    LET d == dialog(h.seen[1], SessionId, h.body, httpArgs.overflow_checks)
    IN  /\ h.resp = Some(d.resp)
        /\ h.left = Some(d.registry)
        /\ h.log = d.calls

\* C35: two dialog requests for one engine do not interleave: at most one
\* handler is between taking and dropping the guard of the engine; it finds
\* the engine as create_session or the other, completed handler left it, no
\* one else changes the engine meanwhile, and its response and its effect are
\* those of the whole handler run alone on the engine it found
C35_DialogsDoNotInterleave ==
    /\ \A t \in Threads : HoldsGuard(t) <=> mutex = Some(t)
    /\ \A t \in DOMAIN threads :
          LET h == threads[t]
              others == DOMAIN threads \ {t}
          IN  /\ h.seen # None =>
                    \/ h.seen = Some(CreatedRegistry)
                    \/ \E u \in others : threads[u].pc = "done" /\ h.seen = threads[u].left
              /\ (h.pc = "flush") => registry = h.seen[1]
              /\ (h.pc = "process" /\ h.rest = <<>>) =>
                    \E d \in {dialog(h.seen[1], SessionId, h.body, httpArgs.overflow_checks)} :
                        /\ d.resp.status = "Ok"
                        /\ h.log = d.calls
                        /\ registry = d.registry
              /\ h.pc = "done" => AsOnePiece(h)

\* one handler has run a contributor step on message 0 of the client while the
\* other waited for the guard, and the other then found the offset taken
C35_Witness ==
    /\ \A t \in Threads : t \in DOMAIN threads /\ threads[t].pc = "done"
    /\ threads["first"].seen = Some(CreatedRegistry)
    /\ threads["first"].resp[1].status = "Ok"
    /\ threads["first"].log # <<>>
    /\ threads["first"].log[1].ran
    /\ threads["second"].seen = threads["first"].left
    /\ threads["second"].resp[1].status = "Err"
    /\ threads["second"].log # <<>>
    /\ ~threads["second"].log[1].ran

\* one handler waits for the guard the other holds in the middle of its messages
C35_WitnessWaiting ==
    /\ mutex = Some("first")
    /\ threads["first"].pc = "process"
    /\ threads["first"].log # <<>>
    /\ threads["first"].rest # <<>>
    /\ "second" \in DOMAIN threads
    /\ threads["second"].pc = "lock"

(***************************************************************************)
(* Sessions side by side                                                   *)
(***************************************************************************)

\* the engine registered under the id is in both registries, and the same
SameEngine(before, after, id) ==
    (id \in DOMAIN before \/ id \in DOMAIN after) =>
        /\ id \in DOMAIN before
        /\ id \in DOMAIN after
        /\ after[id] = before[id]

\* C36: a dialog or delete request to one engine id leaves every other
\* registered engine, its contributor, its queue and its last accepted
\* offset, as it was; a create request leaves every registered engine as it
\* was, registers its engine under an id that was free, and registers nothing
\* when it fails, as with DuplicateEngineId for an id that is taken
C36_SessionsIsolated ==
    response # None =>
        LET res == response[1]
            req == request[1]
        IN  IF "op" \in DOMAIN res
            THEN \A id \in EngineIds \ {req.engine_id} : SameEngine(res.registry, registry, id)
            ELSE /\ \A id \in DOMAIN res.registry : SameEngine(res.registry, registry, id)
                 /\ res.err = "Ok" =>
                        /\ res.engine_id[1] \notin DOMAIN res.registry
                        /\ DOMAIN registry = DOMAIN res.registry \cup {res.engine_id[1]}
                 /\ res.err # "Ok" => registry = res.registry

\* a dialog request has run a contributor step of one engine while another
\* engine is registered
C36_Witness ==
    /\ response # None
    /\ "op" \in DOMAIN response[1]
    /\ response[1].op = "dialog"
    /\ response[1].resp.status = "Ok"
    /\ DOMAIN registry = EngineIds
    /\ registry # response[1].registry
    /\ calls # <<>>
    /\ calls[1].ran
    /\ calls[1].err = "Ok"

\* a create request was refused because the id drawn for it was taken
C36_WitnessDuplicate ==
    /\ response # None
    /\ "err" \in DOMAIN response[1]
    /\ response[1].err = "DuplicateEngineId"
    /\ registry # EmptyRegistry

\* a delete request has removed one of two engines
C36_WitnessDelete ==
    /\ response # None
    /\ "op" \in DOMAIN response[1]
    /\ response[1].op = "delete"
    /\ DOMAIN response[1].registry = EngineIds
    /\ Cardinality(DOMAIN registry) = 1

====
